---------------------------- MODULE Spec2Model ----------------------------
(***************************************************************************)
(* GraphOrchestrator: the graph builder, the superstep executor            *)
(* (graphorchestrator/graph/executor.py) with its retry loop, semaphore,   *)
(* per-task timeout, fallback, routing and file checkpoint.                *)
(*                                                                         *)
(* State objects live in a heap (object id -> messages) so that aliasing   *)
(* and copy.deepcopy are visible.  The asyncio event loop is modelled by   *)
(* interleaving: one action is one stretch of a coroutine between two      *)
(* suspension points (await task, semaphore acquire, the action's own      *)
(* await, asyncio.sleep).                                                  *)
(***************************************************************************)
EXTENDS Integers, Sequences, FiniteSets, TLC

\* ------------------------------------------------------------------ bounds
MaxWorkersBound == 2      \* max_workers is drawn from 1..MaxWorkersBound
MaxRetriesBound == 2      \* retry_policy.max_retries from 0..MaxRetriesBound
MaxSuperstepsBound == 5   \* execute(max_supersteps) from 0..MaxSuperstepsBound
CheckpointEveryBound == 2 \* checkpoint_every from None, 1..CheckpointEveryBound

\* ------------------------------------------------------- program constants
DefaultDelay == 1         \* RetryPolicy.delay
DefaultBackoff == 2       \* RetryPolicy.backoff

NONE == "None"            \* Python's None where a string is expected
NoRef == 0                \* Python's None where a State reference is expected

\* RetryPolicy(max_retries=..., delay=1.0, backoff=2.0)
RetryPolicy(max_retries) ==
  [max_retries |-> max_retries, delay |-> DefaultDelay,
   backoff |-> DefaultBackoff]

\* ------------------------------------------------------------------- edges
ConcreteEdge(source, sink) ==
  [kind |-> "concrete", source |-> source, sinks |-> <<sink>>,
   routing_function |-> NONE]

ConditionalEdge(source, sinks, router) ==
  [kind |-> "conditional", source |-> source, sinks |-> sinks,
   routing_function |-> router]

SeqToSet(s) == {s[i] : i \in DOMAIN s}

\* ------------------------------------------------------------------- nodes
\* Node.__init__ plus the subclass tag (ProcessingNode / AggregatorNode)
Node(node_id, kind) ==
  [node_id |-> node_id, kind |-> kind,
   incoming_edges |-> <<>>, outgoing_edges |-> <<>>,
   fallback_node_id |-> NONE,
   retry_policy |-> <<>>]    \* Optional[RetryPolicy]: <<>> is None

\* Graph.__init__
Graph ==
  [nodes |-> [n \in {} |-> Node("", "processing")],
   concrete_edges |-> <<>>, conditional_edges |-> <<>>,
   start_node |-> "start", end_node |-> "end"]

\* --------------------------------------------------------------- builder
\* Every builder call returns the graph after the call and the exception
\* raised (NONE when the call returned normally).
Ok(g) == [graph |-> g, error |-> NONE]
Raise(g, e) == [graph |-> g, error |-> e]

PutNode(nodes, n) ==
  [x \in (DOMAIN nodes) \cup {n.node_id} |->
     IF x = n.node_id THEN n ELSE nodes[x]]

\* faulty variant: the table entry is written before the duplicate is reported
add_node_overwriting(g, node) ==
  IF node.node_id \in DOMAIN g.nodes
  THEN Raise([g EXCEPT !.nodes = PutNode(g.nodes, node)], "DuplicateNodeError")
  ELSE Ok([g EXCEPT !.nodes = PutNode(g.nodes, node)])

\* GraphBuilder.add_node
add_node(g, node) ==
  IF node.node_id \in DOMAIN g.nodes
  THEN Raise(g, "DuplicateNodeError")
  ELSE Ok([g EXCEPT !.nodes = PutNode(g.nodes, node)])

\* GraphBuilder.__init__
GraphBuilder ==
  add_node(add_node(Graph, Node("start", "processing")).graph,
           Node("end", "processing")).graph

set_fallback_node(g, node_id, fallback_node_id) ==
  IF node_id \notin DOMAIN g.nodes THEN Raise(g, "NodeNotFoundError")
  ELSE IF fallback_node_id \notin DOMAIN g.nodes
  THEN Raise(g, "NodeNotFoundError")
  ELSE Ok([g EXCEPT !.nodes[node_id].fallback_node_id = fallback_node_id])

\* Node.set_retry_policy on a node of the graph
set_retry_policy(g, node_id, policy) ==
  [g EXCEPT !.nodes[node_id].retry_policy = <<policy>>]

\* faulty variant: start is accepted as a sink
NoReservedSink(sink_id) == FALSE

\* if sink_id == "start": raise GraphConfigurationError
ReservedSink(sink_id) == sink_id = "start"

\* faulty variant: conditional branches are not looked at
NoConditionalBranch(g, source_id, sink_id) == FALSE

\* for cond_edge in self.graph.conditional_edges:
\*     if cond_edge.source == source and sink in cond_edge.sinks
HasConditionalBranch(g, source_id, sink_id) ==
  \E i \in DOMAIN g.conditional_edges :
    /\ g.conditional_edges[i].source = source_id
    /\ sink_id \in SeqToSet(g.conditional_edges[i].sinks)

add_concrete_edge(g, source_id, sink_id) ==
  IF source_id \notin DOMAIN g.nodes THEN Raise(g, "NodeNotFoundError")
  ELSE IF source_id = "end" THEN Raise(g, "GraphConfigurationError")
  ELSE IF sink_id \notin DOMAIN g.nodes THEN Raise(g, "NodeNotFoundError")
  ELSE IF ReservedSink(sink_id) THEN Raise(g, "GraphConfigurationError")
  ELSE IF \E i \in DOMAIN g.concrete_edges :
            /\ g.concrete_edges[i].source = source_id
            /\ g.concrete_edges[i].sinks[1] = sink_id
  THEN Raise(g, "EdgeExistsError")
  ELSE IF HasConditionalBranch(g, source_id, sink_id)
  THEN Raise(g, "EdgeExistsError")
  ELSE LET edge == ConcreteEdge(source_id, sink_id)
           g1 == [g EXCEPT !.concrete_edges = Append(@, edge)]
           g2 == [g1 EXCEPT !.nodes[source_id].outgoing_edges = Append(@, edge)]
           g3 == [g2 EXCEPT !.nodes[sink_id].incoming_edges = Append(@, edge)]
       IN Ok(g3)

\* faulty variant: only the first sink learns of the edge
AppendIncomingFirst(nodes, sinks, i, edge) ==
  IF sinks = <<>> THEN nodes
  ELSE [nodes EXCEPT ![sinks[1]].incoming_edges = Append(@, edge)]

RECURSIVE AppendIncoming(_, _, _, _)
\* for sink in sinks: sink.incoming_edges.append(edge)
AppendIncoming(nodes, sinks, i, edge) ==
  IF i > Len(sinks) THEN nodes
  ELSE AppendIncoming(
         [nodes EXCEPT ![sinks[i]].incoming_edges = Append(@, edge)],
         sinks, i + 1, edge)

\* Routing functions known to the model; Decorated are those wrapped by
\* @routing_function (is_routing_function = True).
Routers ==
  {"loop_router", "until_len", "ghost_router", "ghost_later", "empty_router",
   "int_router"}
Decorated(router) == router \in Routers

RECURSIVE FirstBadSink(_, _, _)
\* the sink loop of add_conditional_edge: the first sink that raises
FirstBadSink(g, sink_ids, i) ==
  IF i > Len(sink_ids) THEN NONE
  ELSE IF sink_ids[i] \notin DOMAIN g.nodes THEN "NodeNotFoundError"
  ELSE IF ReservedSink(sink_ids[i]) THEN "GraphConfigurationError"
  ELSE FirstBadSink(g, sink_ids, i + 1)

add_conditional_edge(g, source_id, sink_ids, router) ==
  IF source_id \notin DOMAIN g.nodes THEN Raise(g, "NodeNotFoundError")
  ELSE IF source_id = "end" THEN Raise(g, "GraphConfigurationError")
  ELSE IF FirstBadSink(g, sink_ids, 1) # NONE
  THEN Raise(g, FirstBadSink(g, sink_ids, 1))
  ELSE IF \E i \in DOMAIN g.concrete_edges :
            /\ g.concrete_edges[i].source = source_id
            /\ g.concrete_edges[i].sinks[1] \in SeqToSet(sink_ids)
  THEN Raise(g, "EdgeExistsError")
  ELSE IF \E i \in DOMAIN g.conditional_edges :
            /\ g.conditional_edges[i].source = source_id
            /\ SeqToSet(sink_ids) \cap SeqToSet(g.conditional_edges[i].sinks) # {}
  THEN Raise(g, "EdgeExistsError")
  ELSE IF ~Decorated(router) THEN Raise(g, "RoutingFunctionNotDecoratedError")
  ELSE LET edge == ConditionalEdge(source_id, sink_ids, router)
           g1 == [g EXCEPT !.conditional_edges = Append(@, edge)]
           g2 == [g1 EXCEPT !.nodes[source_id].outgoing_edges = Append(@, edge)]
           g3 == [g2 EXCEPT !.nodes = AppendIncoming(@, sink_ids, 1, edge)]
       IN Ok(g3)

\* faulty variant: the incoming edges of end are not looked at
build_graph_ignoring_end(g) ==
  LET out == g.nodes[g.start_node].outgoing_edges IN
  IF \E i \in DOMAIN out : out[i].kind = "conditional"
  THEN Raise(g, "GraphConfigurationError")
  ELSE IF ~ \E i \in DOMAIN out : out[i].kind = "concrete"
  THEN Raise(g, "GraphConfigurationError")
  ELSE Ok(g)

build_graph(g) ==
  LET out == g.nodes[g.start_node].outgoing_edges IN
  IF \E i \in DOMAIN out : out[i].kind = "conditional"
  THEN Raise(g, "GraphConfigurationError")
  ELSE IF ~ \E i \in DOMAIN out : out[i].kind = "concrete"
  THEN Raise(g, "GraphConfigurationError")
  ELSE IF g.nodes[g.end_node].incoming_edges = <<>>
  THEN Raise(g, "GraphConfigurationError")
  ELSE Ok(g)


\* ------------------------------------------------------ graphs under test
\* start -> a -> end, a falls back to f; f has its own edge f -> b -> end
LinearGraph ==
  LET g1 == add_node(GraphBuilder, Node("a", "processing")).graph
      g2 == add_node(g1, Node("f", "processing")).graph
      g3 == add_node(g2, Node("b", "processing")).graph
      g4 == add_concrete_edge(g3, "start", "a").graph
      g5 == add_concrete_edge(g4, "a", "end").graph
      g6 == add_concrete_edge(g5, "f", "b").graph
      g7 == add_concrete_edge(g6, "b", "end").graph
      g8 == set_fallback_node(g7, "a", "f").graph
  IN build_graph(g8).graph

\* start -> {a, b} -> agg -> end (fan-out with aggregation)
DiamondGraph ==
  LET g1 == add_node(GraphBuilder, Node("a", "processing")).graph
      g2 == add_node(g1, Node("b", "processing")).graph
      g3 == add_node(g2, Node("agg", "aggregator")).graph
      g4 == add_concrete_edge(g3, "start", "a").graph
      g5 == add_concrete_edge(g4, "start", "b").graph
      g6 == add_concrete_edge(g5, "a", "agg").graph
      g7 == add_concrete_edge(g6, "b", "agg").graph
      g8 == add_concrete_edge(g7, "agg", "end").graph
  IN build_graph(g8).graph

\* the same fan-out, with the aggregator's edges registered b first, then a
CrossedDiamondGraph ==
  LET g1 == add_node(GraphBuilder, Node("a", "processing")).graph
      g2 == add_node(g1, Node("b", "processing")).graph
      g3 == add_node(g2, Node("agg", "aggregator")).graph
      g4 == add_concrete_edge(g3, "start", "a").graph
      g5 == add_concrete_edge(g4, "start", "b").graph
      g6 == add_concrete_edge(g5, "b", "agg").graph
      g7 == add_concrete_edge(g6, "a", "agg").graph
      g8 == add_concrete_edge(g7, "agg", "end").graph
  IN build_graph(g8).graph

\* start -> {a, b} -> end: end is a processing node with two pending inputs
FanInGraph ==
  LET g1 == add_node(GraphBuilder, Node("a", "processing")).graph
      g2 == add_node(g1, Node("b", "processing")).graph
      g3 == add_concrete_edge(g2, "start", "a").graph
      g4 == add_concrete_edge(g3, "start", "b").graph
      g5 == add_concrete_edge(g4, "a", "end").graph
      g6 == add_concrete_edge(g5, "b", "end").graph
  IN build_graph(g6).graph

\* start -> loop, loop -> {loop, end} chosen by the router
LoopGraph(router) ==
  LET g1 == add_node(GraphBuilder, Node("loop", "processing")).graph
      g2 == add_concrete_edge(g1, "start", "loop").graph
      g3 == add_conditional_edge(g2, "loop", <<"loop", "end">>, router).graph
  IN build_graph(g3).graph

\* start -> a -> end where a carries its own retry policy
OverrideGraph(max_retries) ==
  LET g1 == add_node(GraphBuilder, Node("a", "processing")).graph
      g2 == add_concrete_edge(g1, "start", "a").graph
      g3 == add_concrete_edge(g2, "a", "end").graph
      g4 == set_retry_policy(g3, "a", RetryPolicy(max_retries))
  IN build_graph(g4).graph

\* start -> x and y -> end: end has an incoming edge, but no path from start
DeadEndGraph ==
  LET g1 == add_node(GraphBuilder, Node("x", "processing")).graph
      g2 == add_node(g1, Node("y", "processing")).graph
      g3 == add_concrete_edge(g2, "start", "x").graph
      g4 == add_concrete_edge(g3, "y", "end").graph
  IN build_graph(g4).graph

\* start -> t -> end where t's action awaits its own I/O under a deadline
\* and, when it fails, raises asyncio.TimeoutError
DeadlineGraph ==
  LET g1 == add_node(GraphBuilder, Node("t", "processing")).graph
      g2 == add_concrete_edge(g1, "start", "t").graph
      g3 == add_concrete_edge(g2, "t", "end").graph
  IN build_graph(g3).graph

Graphs ==
  {LinearGraph, DiamondGraph, CrossedDiamondGraph, FanInGraph, DeadEndGraph,
   DeadlineGraph}
    \cup {LoopGraph(r) : r \in Routers}
    \cup {OverrideGraph(k) : k \in 0..MaxRetriesBound}

\* nodes whose action may raise
FlakyNodes(g) == (DOMAIN g.nodes) \cap {"a", "b", "f", "t"}

InitialMessages == <<"init">>

\* --------------------------------------------------------------- AI action
\* AIActionBase.__init__; sets_flag and build_fails describe the subclass's
\* build_model: whether it sets self._model_built as the base class asks, and
\* how many of its first calls raise (a model that cannot be loaded yet)
AIActionBase(sets_flag, build_fails) ==
  [_model_built |-> FALSE, model |-> NONE, sets_flag |-> sets_flag,
   build_fails |-> build_fails, invocations |-> 0]

\* the subclass's build_model: "Subclasses must set self.model and
\* self._model_built = True"
build_model(a) ==
  IF a.build_fails > 0
  THEN [action |-> [a EXCEPT !.build_fails = @ - 1], raised |-> TRUE]
  ELSE [action |-> [a EXCEPT !.model = "model",
                             !._model_built = @ \/ a.sets_flag],
        raised |-> FALSE]

\* the coroutines that call one AI action object
AICallers == 1..2

\* --------------------------------------------------------------- variables
VARIABLES
  graph,              \* the Graph handed to the executor
  fails,              \* per node: how many leading attempts of a visit raise
  dirty,              \* a failing attempt appends to its input before raising
  last_call,          \* the last GraphBuilder call: arguments, graph before, error
  built,              \* <<the Graph as build_graph returned it>>, <<>> before
  node_objects,       \* Node objects shared by two builders: object id -> Node
  tables,             \* the two builders' graphs, holding Node object ids
  ai_action,          \* an AIActionBase object
  ai_log,             \* its build_model and process_state calls, in order
  ai_pc,              \* per caller: where its __call__ is
  heap,               \* State objects: object id -> messages
  initial_state,      \* self.initial_state (a reference)
  max_workers,        \* self.max_workers
  retry_policy,       \* self.retry_policy
  checkpoint_path,    \* self.checkpoint_path
  checkpoint_every,   \* self.checkpoint_every (0 is None)
  semaphore,          \* free slots of self.semaphore
  active_states,      \* self.active_states: ordered node_id -> [State]
  superstep,          \* self.superstep
  self_final_state,   \* self.final_state
  pc,                 \* where the execute coroutine is
  max_supersteps,     \* execute's argument
  timer_may_expire,   \* superstep_timeout is short enough to expire
  final_state,        \* execute's local final_state
  next_active_states, \* execute's local next_active_states
  tasks,              \* every task created by this run, in creation order
  first,              \* index in tasks of the current superstep's first task
  idx,                \* index in tasks of the task the await loop is at
  outcome,            \* what execute returned or raised
  disk,               \* the file at checkpoint_path
  saved,              \* every checkpoint written by the first run
  run,                \* "first" or "resumed"
  first_outcome,      \* outcome of the first run, kept for the resumed one
  resumed_from        \* the checkpoint handed to from_checkpoint

vars == <<graph, fails, dirty, last_call, built, node_objects, tables,
          ai_action, ai_log, ai_pc, heap, initial_state, max_workers, retry_policy,
          checkpoint_path, checkpoint_every, semaphore, active_states,
          superstep, self_final_state, pc, max_supersteps, timer_may_expire,
          final_state, next_active_states, tasks, first, idx, outcome, disk,
          saved, run, first_outcome, resumed_from>>

ai == <<ai_action, ai_log, ai_pc>>
\* an AI action nobody has called
NoAICall ==
  /\ ai_action = AIActionBase(TRUE, 0)
  /\ ai_log = <<>>
  /\ ai_pc = [k \in AICallers |-> "idle"]

program == <<graph, fails, dirty, last_call, built, node_objects, tables, ai>>
config == <<max_workers, retry_policy, checkpoint_path, checkpoint_every,
            initial_state>>
call == <<max_supersteps, timer_may_expire>>
history == <<saved, run, first_outcome, resumed_from>>

\* ------------------------------------------------------ ordered dict, heap
\* a defaultdict(list) in insertion order: a sequence of <<key, list>>
Keys(m) == {m[i][1] : i \in DOMAIN m}
Get(m, k) == IF k \in Keys(m)
             THEN m[CHOOSE i \in DOMAIN m : m[i][1] = k][2]
             ELSE <<>>

\* faulty variant: the sink's list is replaced by the new state
MapPut(m, k, ref) ==
  IF k \in Keys(m)
  THEN [i \in DOMAIN m |-> IF m[i][1] = k THEN <<k, <<ref>>>> ELSE m[i]]
  ELSE Append(m, <<k, <<ref>>>>)

\* next_active_states[k].append(ref)
MapAppend(m, k, ref) ==
  IF k \in Keys(m)
  THEN [i \in DOMAIN m |->
          IF m[i][1] = k THEN <<k, Append(m[i][2], ref)>> ELSE m[i]]
  ELSE Append(m, <<k, <<ref>>>>)

\* copy.deepcopy(state): a new object with equal messages
DeepCopy(h, ref) == [heap |-> Append(h, h[ref]), ref |-> Len(h) + 1]

\* Optional[State] by value: <<>> is None, <<m>> is State(m)
ValueOf(h, ref) == IF ref = NoRef THEN <<>> ELSE <<h[ref]>>

\* the pending map by value (what pickle writes, what State.__eq__ compares)
MapValue(h, m) ==
  [i \in DOMAIN m |->
     <<m[i][1], [j \in DOMAIN m[i][2] |-> h[m[i][2][j]]]>>]

Last(s) == s[Len(s)]

\* --------------------------------------------------------------- executor
NoOutcome ==
  [kind |-> "running", node_id |-> NONE, message |-> NONE, detail |-> NONE,
   state |-> NoRef, value |-> <<>>]

\* raise GraphExecutionError(node_id, message)
GraphExecutionError(node_id, message, detail) ==
  [kind |-> "GraphExecutionError", node_id |-> node_id, message |-> message,
   detail |-> detail, state |-> NoRef, value |-> <<>>]

Returned(h, ref) ==
  [kind |-> "return", node_id |-> NONE, message |-> NONE, detail |-> NONE,
   state |-> ref, value |-> ValueOf(h, ref)]

\* the file at checkpoint_path: exists is "there is a file", complete is
\* "its bytes are a whole pickle"
NoCheckpoint ==
  [exists |-> FALSE, complete |-> FALSE, superstep |-> 0,
   active_states |-> <<>>,
   final_state |-> <<>>, initial_state |-> <<>>,
   retry_policy |-> RetryPolicy(0), max_workers |-> 0]

\* no builder call is on record
NoCall ==
  [op |-> NONE, source |-> NONE, sinks |-> <<>>, router |-> NONE,
   error |-> NONE, before |-> Graph]

Init ==
  /\ graph \in Graphs
  /\ last_call = NoCall
  /\ built = <<graph>>
  /\ node_objects = <<>> /\ tables = <<>>
  /\ NoAICall
  /\ \E mr \in 0..MaxRetriesBound :
       /\ retry_policy = RetryPolicy(mr)
       /\ fails \in [DOMAIN graph.nodes -> 0..(mr + 1)]
       /\ \A n \in DOMAIN graph.nodes : n \notin FlakyNodes(graph) => fails[n] = 0
  /\ dirty \in BOOLEAN
  /\ (\A n \in DOMAIN graph.nodes : fails[n] = 0) => dirty = FALSE
  /\ max_workers \in 1..MaxWorkersBound
  /\ checkpoint_every \in 0..CheckpointEveryBound
  /\ checkpoint_path \in {NONE, "ckpt.pkl"}
  /\ checkpoint_path = NONE => checkpoint_every = 1
  /\ heap = <<InitialMessages>>
  /\ initial_state = 1
  /\ active_states = <<<<graph.start_node, <<initial_state>>>>>>
  /\ semaphore = max_workers
  /\ superstep = 0
  /\ self_final_state = NoRef
  /\ pc = "init"
  /\ max_supersteps = 0
  /\ timer_may_expire = FALSE
  /\ final_state = NoRef
  /\ next_active_states = <<>>
  /\ tasks = <<>>
  /\ first = 1
  /\ idx = 1
  /\ outcome = NoOutcome
  /\ disk = NoCheckpoint
  /\ saved = {}
  /\ run = "first"
  /\ first_outcome = NoOutcome
  /\ resumed_from = NoCheckpoint

\* execute(max_supersteps, superstep_timeout): entry, up to the while test
Execute(ms, te) ==
  /\ pc = "init"
  /\ run # "first" => (ms = max_supersteps /\ te = timer_may_expire)
  /\ max_supersteps' = ms
  /\ timer_may_expire' = te
  /\ final_state' = NoRef
  /\ pc' = "loop"
  /\ UNCHANGED <<program, config, history, heap, semaphore, active_states,
                 superstep, self_final_state, next_active_states, tasks,
                 first, idx, outcome, disk>>

\* asyncio.create_task(asyncio.wait_for(_execute_node_with_retry_async(...)))
\* policy is the retry_policy argument of the coroutine, delay its local
\* `delay`, sleeps the durations it has passed to asyncio.sleep
Task(node_id, exec_id, role, step, input, policy) ==
  [node_id |-> node_id, exec_id |-> exec_id, role |-> role, step |-> step,
   input |-> input, policy |-> policy, pc |-> "created", attempt |-> 0,
   calls |-> 0, result |-> NoRef, delay |-> policy.delay, sleeps |-> <<>>]

\* the retry_policy argument at both call sites: self.retry_policy
PolicyArgument(node, default) == default

\* faulty variant: the last pending input is the one used
LastInputState(states) == states[Len(states)]

\* states[0]
FirstInputState(states) == states[1]

RECURSIVE Dispatch(_, _, _, _, _)
\* for node_id, states in self.active_states.items(): ... tasks.append(...)
Dispatch(g, h, pending, i, acc) ==
  IF i > Len(pending) THEN [heap |-> h, tasks |-> acc]
  ELSE LET node_id == pending[i][1]
           states == pending[i][2]
           policy == PolicyArgument(g.nodes[node_id], retry_policy)
       IN IF g.nodes[node_id].kind = "aggregator"
          THEN Dispatch(g, h, pending, i + 1,
                 Append(acc, Task(node_id, node_id, "primary", superstep,
                                  states, policy)))
          ELSE LET c == DeepCopy(h, FirstInputState(states))
               IN Dispatch(g, c.heap, pending, i + 1,
                    Append(acc, Task(node_id, node_id, "primary", superstep,
                                     <<c.ref>>, policy)))

\* faulty variant: one superstep too many
LoopContinuesInclusive == active_states # <<>> /\ superstep <= max_supersteps

\* while self.active_states and self.superstep < max_supersteps
LoopContinues == active_states # <<>> /\ superstep < max_supersteps

LoopDispatch ==
  /\ pc = "loop"
  /\ LoopContinues
  /\ LET d == Dispatch(graph, heap, active_states, 1, <<>>)
     IN /\ heap' = d.heap
        /\ tasks' = tasks \o d.tasks
  /\ next_active_states' = <<>>
  /\ first' = Len(tasks) + 1
  /\ idx' = Len(tasks) + 1
  /\ pc' = "await"
  /\ UNCHANGED <<program, config, call, history, semaphore, active_states,
                 superstep, self_final_state, final_state, outcome, disk>>

\* if self.superstep >= max_supersteps: raise GraphExecutionError("N/A", ...)
MaxSuperstepsReached ==
  /\ pc = "loop"
  /\ ~LoopContinues
  /\ superstep >= max_supersteps
  /\ outcome' = GraphExecutionError("N/A", "Max supersteps reached", NONE)
  /\ pc' = "raised"
  /\ UNCHANGED <<program, config, call, history, heap, semaphore,
                 active_states, superstep, self_final_state, final_state,
                 next_active_states, tasks, first, idx, disk>>

\* return final_state
ReturnFinal ==
  /\ pc = "loop"
  /\ ~LoopContinues
  /\ superstep < max_supersteps
  /\ outcome' = Returned(heap, final_state)
  /\ pc' = "returned"
  /\ UNCHANGED <<program, config, call, history, heap, semaphore,
                 active_states, superstep, self_final_state, final_state,
                 next_active_states, tasks, first, idx, disk>>

\* ------------------------------------------------- the task coroutines
\* _execute_node_with_retry_async wrapped in asyncio.wait_for.  Task pcs:
\*   created   create_task was called, the coroutine has not run yet
\*   acquire   suspended in `async with self.semaphore`
\*   executing inside node.execute, holding a slot
\*   sleeping  inside asyncio.sleep(delay), still inside the `async with`
\*   done / failed / timeout   the task has finished
Finished == {"done", "failed", "timeout"}
\* faulty variant: a task cancelled in its back-off sleep keeps its slot
HoldsSlotExecuting == {"executing"}

\* the pcs inside `async with self.semaphore`
HoldsSlot == {"executing", "sleeping"}

\* faulty variant: the semaphore never makes a task wait
SemaphoreAlwaysFree(value) == TRUE

\* asyncio.Semaphore.acquire does not wait
SemaphoreFree(value) == value > 0

\* faulty variant: one attempt too many before giving up
RetryExhaustedLate(attempt, policy) == attempt = policy.max_retries + 1

\* if attempt == retry_policy.max_retries: raise e
RetryExhausted(attempt, policy) == attempt = policy.max_retries

\* the node's function raises on this attempt of the visit
ActionRaises(exec_id, attempt) == attempt < fails[exec_id]

\* the exception it raises is an asyncio.TimeoutError (t's), not a ValueError
RaisesTimeoutError(exec_id) == exec_id = "t"

\* `except asyncio.TimeoutError` matches what `await task` raised: wait_for
\* cancelled the task, or the task ended with a TimeoutError of its action
CaughtAsTimeout(task) ==
  \/ task.pc = "timeout"
  \/ task.pc = "failed" /\ RaisesTimeoutError(task.exec_id)

\* `except Exception` is reached: any other exception of the last attempt
CaughtAsFailure(task) ==
  task.pc = "failed" /\ ~RaisesTimeoutError(task.exec_id)

\* The event loop runs callbacks in the order they were scheduled: the
\* tasks made by create_task run their first stretch in creation order, and
\* before any timer, any wake-up and the resumption of the awaiting execute.
StartsNext(i) == \A j \in 1..(i - 1) : tasks[j].pc # "created"
AllStarted == \A j \in DOMAIN tasks : tasks[j].pc # "created"

\* a task that cannot enter the semaphore suspends; its timer is running
TaskBlock(i) ==
  /\ i \in DOMAIN tasks
  /\ tasks[i].pc = "created"
  /\ StartsNext(i)
  /\ ~SemaphoreFree(semaphore)
  /\ tasks' = [tasks EXCEPT ![i].pc = "acquire"]
  /\ UNCHANGED <<program, config, call, history, heap, semaphore,
                 active_states, superstep, self_final_state, pc, final_state,
                 next_active_states, first, idx, outcome, disk>>

\* async with self.semaphore: ... await node.execute(input_data)
TaskAcquire(i) ==
  /\ i \in DOMAIN tasks
  /\ tasks[i].pc \in {"created", "acquire"}
  /\ tasks[i].pc = "created" => StartsNext(i)
  /\ SemaphoreFree(semaphore)
  /\ semaphore' = semaphore - 1
  /\ tasks' = [tasks EXCEPT ![i].pc = "executing", ![i].calls = @ + 1]
  /\ UNCHANGED <<program, config, call, history, heap, active_states,
                 superstep, self_final_state, pc, final_state,
                 next_active_states, first, idx, outcome, disk>>

\* node.execute(input): what the node's function does to the heap.
\* start and end run passThrough; a processing node appends its id to the
\* State it received and returns that State; an aggregator appends the last
\* message of every further input and its id to states[0] and returns
\* states[0] (the actions of the repository's tests).
NodeExecute(h, g, exec_id, input) ==
  IF g.nodes[exec_id].kind = "aggregator"
  THEN [heap |-> [h EXCEPT ![input[1]] =
                    @ \o [j \in 1..(Len(input) - 1) |-> Last(h[input[j + 1]])]
                      \o <<exec_id>>],
        ref |-> input[1]]
  ELSE IF exec_id \in {g.start_node, g.end_node}
  THEN [heap |-> h, ref |-> input[1]]
  ELSE [heap |-> [h EXCEPT ![input[1]] = Append(@, exec_id)],
        ref |-> input[1]]

\* return await node.execute(input_data)
TaskSucceed(i) ==
  /\ i \in DOMAIN tasks
  /\ tasks[i].pc = "executing"
  /\ ~ActionRaises(tasks[i].exec_id, tasks[i].attempt)
  /\ LET r == NodeExecute(heap, graph, tasks[i].exec_id, tasks[i].input)
     IN /\ heap' = r.heap
        /\ tasks' = [tasks EXCEPT ![i].pc = "done", ![i].result = r.ref]
  /\ semaphore' = semaphore + 1
  /\ UNCHANGED <<program, config, call, history, active_states, superstep,
                 self_final_state, pc, final_state, next_active_states,
                 first, idx, outcome, disk>>

\* except Exception as e: raise on the last attempt, else sleep
TaskRaise(i) ==
  /\ i \in DOMAIN tasks
  /\ tasks[i].pc = "executing"
  /\ ActionRaises(tasks[i].exec_id, tasks[i].attempt)
  /\ heap' = IF dirty /\ graph.nodes[tasks[i].exec_id].kind # "aggregator"
             THEN [heap EXCEPT ![tasks[i].input[1]] = Append(@, "dirty")]
             ELSE heap
  /\ IF RetryExhausted(tasks[i].attempt, tasks[i].policy)
     THEN /\ tasks' = [tasks EXCEPT ![i].pc = "failed"]
          /\ semaphore' = semaphore + 1
     ELSE /\ tasks' = [tasks EXCEPT ![i].pc = "sleeping",
                                    ![i].sleeps = Append(@, tasks[i].delay)]
          /\ UNCHANGED semaphore
  /\ UNCHANGED <<program, config, call, history, active_states, superstep,
                 self_final_state, pc, final_state, next_active_states,
                 first, idx, outcome, disk>>

\* faulty variant: the delay is not scaled
ConstantDelay(delay, policy) == delay

\* delay *= retry_policy.backoff
NextDelay(delay, policy) == delay * policy.backoff

\* faulty variant: a retry uses up a superstep
TaskWakeCountingSuperstep(i) ==
  /\ i \in DOMAIN tasks
  /\ tasks[i].pc = "sleeping"
  /\ AllStarted
  /\ tasks' = [tasks EXCEPT ![i].pc = "acquire", ![i].attempt = @ + 1,
                            ![i].delay = NextDelay(@, tasks[i].policy)]
  /\ semaphore' = semaphore + 1
  /\ superstep' = superstep + 1
  /\ UNCHANGED <<program, config, call, history, heap, active_states,
                 self_final_state, pc, final_state,
                 next_active_states, first, idx, outcome, disk>>

\* asyncio.sleep(delay) returns: delay *= backoff; attempt += 1; the
\* `async with` block ends and the slot is released
TaskWake(i) ==
  /\ i \in DOMAIN tasks
  /\ tasks[i].pc = "sleeping"
  /\ AllStarted
  /\ tasks' = [tasks EXCEPT ![i].pc = "acquire", ![i].attempt = @ + 1,
                            ![i].delay = NextDelay(@, tasks[i].policy)]
  /\ semaphore' = semaphore + 1
  /\ UNCHANGED <<program, config, call, history, heap, active_states,
                 superstep, self_final_state, pc, final_state,
                 next_active_states, first, idx, outcome, disk>>

\* asyncio.wait_for: the timeout expires, the coroutine is cancelled at its
\* suspension point (leaving the `async with` if inside) and TimeoutError
\* is raised in the awaiter
TaskTimeout(i) ==
  /\ i \in DOMAIN tasks
  /\ timer_may_expire
  /\ AllStarted
  /\ tasks[i].pc \in {"acquire", "executing", "sleeping"}
  /\ tasks' = [tasks EXCEPT ![i].pc = "timeout"]
  /\ semaphore' = IF tasks[i].pc \in HoldsSlot THEN semaphore + 1 ELSE semaphore
  /\ UNCHANGED <<program, config, call, history, heap, active_states,
                 superstep, self_final_state, pc, final_state,
                 next_active_states, first, idx, outcome, disk>>

\* ----------------------------------------------------------- routing
\* the routing functions of the graphs under test (user code)
Router(name, messages) ==
  CASE name = "loop_router" -> "loop"
    [] name = "until_len" -> IF Len(messages) >= 3 THEN "end" ELSE "loop"
    [] name = "ghost_router" -> "ghost"
    [] name = "ghost_later" -> IF Len(messages) >= 3 THEN "ghost" ELSE "loop"
    [] name = "empty_router" -> ""
    [] OTHER -> NONE

\* if not isinstance(result, str): raise InvalidRoutingFunctionOutput(result)
\* (the @routing_function wrapper; int_router returns a number)
ReturnsString(name) == name # "int_router"

\* faulty variant: the router's answer is not validated
AnyChoice(chosen_id, edge) == TRUE

\* if chosen_id not in valid_ids
ValidChoice(chosen_id, edge) == chosen_id \in SeqToSet(edge.sinks)

\* faulty variant: the result itself is appended, not a copy
RoutedAlias(h, result) == [heap |-> h, ref |-> result]

\* copy.deepcopy(result_state) at each append to next_active_states
RoutedCopy(h, result) == DeepCopy(h, result)

RECURSIVE Route(_, _, _, _, _)
\* for edge in node.outgoing_edges: ... next_active_states[..].append(deepcopy)
\* error is the id a router returned that is no sink of its edge
Route(h, next, edges, i, result) ==
  IF i > Len(edges)
  THEN [heap |-> h, next |-> next, error |-> FALSE, chosen |-> NONE,
        exception |-> NONE]
  ELSE LET edge == edges[i] IN
       IF edge.kind = "concrete"
       THEN LET c == RoutedCopy(h, result)
            IN Route(c.heap, MapAppend(next, edge.sinks[1], c.ref), edges,
                     i + 1, result)
       ELSE IF ~ReturnsString(edge.routing_function)
       THEN [heap |-> h, next |-> next, error |-> TRUE, chosen |-> NONE,
             exception |-> "InvalidRoutingFunctionOutput"]
       ELSE LET chosen_id == Router(edge.routing_function, h[result]) IN
            IF ~ValidChoice(chosen_id, edge)
            THEN [heap |-> h, next |-> next, error |-> TRUE, chosen |-> chosen_id,
                  exception |-> "GraphExecutionError"]
            ELSE LET c == RoutedCopy(h, result)
                 IN Route(c.heap, MapAppend(next, chosen_id, c.ref), edges,
                          i + 1, result)

\* faulty variant: the edges of the node that produced the result
ExecutedNodeEdges(g, task) == g.nodes[task.exec_id].outgoing_edges

\* "Use original node's outgoing edges even after fallback"
RoutingEdges(g, task) == g.nodes[task.node_id].outgoing_edges

\* faulty variant: only the first task of the superstep is awaited
OnlyFirstTask == first

\* the last index of the current superstep's primary tasks
LastPrimary == first + Len(active_states) - 1

\* lines 120-134 for one task result, then the next iteration of the await
\* loop (or the end of the loop)
RouteAndContinue(task, result) ==
  LET r == Route(heap, next_active_states, RoutingEdges(graph, task), 1, result)
  IN /\ heap' = r.heap
     /\ next_active_states' = r.next
     /\ IF r.error
        THEN /\ outcome' =
                  IF r.exception = "InvalidRoutingFunctionOutput"
                  THEN [NoOutcome EXCEPT
                          !.kind = "InvalidRoutingFunctionOutput",
                          !.message = "Routing function must return a string"]
                  ELSE GraphExecutionError(task.node_id,
                                           "Invalid routing output", r.chosen)
             /\ pc' = "raised"
             /\ UNCHANGED <<final_state, idx>>
        ELSE /\ final_state' = IF task.node_id = graph.end_node
                               THEN result ELSE final_state
             /\ idx' = idx + 1
             /\ pc' = IF idx = LastPrimary THEN "advance" ELSE "await"
             /\ UNCHANGED outcome

\* result_state = await task   (the task returned)
AwaitSuccess ==
  /\ pc = "await"
  /\ AllStarted
  /\ tasks[idx].pc = "done"
  /\ RouteAndContinue(tasks[idx], tasks[idx].result)
  /\ UNCHANGED <<program, config, call, history, semaphore, active_states,
                 superstep, self_final_state, tasks, first, disk>>

\* getattr(node, "fallback_node_id", None)
FallbackOf(g, node_id) == g.nodes[node_id].fallback_node_id

\* faulty variant: a timed-out node is handed to its fallback like a failed one
AwaitTimeoutFallback ==
  /\ pc = "await"
  /\ AllStarted
  /\ CaughtAsTimeout(tasks[idx])
  /\ IF FallbackOf(graph, tasks[idx].node_id) # NONE
     THEN /\ tasks' = Append(tasks,
                 [Task(tasks[idx].node_id, FallbackOf(graph, tasks[idx].node_id),
                       "fallback", superstep, tasks[idx].input, retry_policy)
                    EXCEPT !.pc = "acquire"])
          /\ pc' = "fallback"
          /\ UNCHANGED outcome
     ELSE /\ outcome' = GraphExecutionError(tasks[idx].node_id,
                                           "Execution timed out", NONE)
          /\ pc' = "raised"
          /\ UNCHANGED tasks
  /\ UNCHANGED <<program, config, call, history, heap, semaphore,
                 active_states, superstep, self_final_state, final_state,
                 next_active_states, first, idx, disk>>

\* except asyncio.TimeoutError: raise GraphExecutionError(node_id, ...)
AwaitTimeout ==
  /\ pc = "await"
  /\ AllStarted
  /\ CaughtAsTimeout(tasks[idx])
  /\ outcome' = GraphExecutionError(tasks[idx].node_id, "Execution timed out", NONE)
  /\ pc' = "raised"
  /\ UNCHANGED <<program, config, call, history, heap, semaphore,
                 active_states, superstep, self_final_state, final_state,
                 next_active_states, tasks, first, idx, disk>>

\* except Exception as e: with a fallback, await wait_for(retry(fallback_node,
\* original_input, ...)): the fallback runs as one more task body
AwaitFailureFallback ==
  /\ pc = "await"
  /\ AllStarted
  /\ CaughtAsFailure(tasks[idx])
  /\ FallbackOf(graph, tasks[idx].node_id) # NONE
  /\ tasks' = Append(tasks,
       [Task(tasks[idx].node_id, FallbackOf(graph, tasks[idx].node_id),
             "fallback", superstep, tasks[idx].input,
             PolicyArgument(graph.nodes[FallbackOf(graph, tasks[idx].node_id)],
                            retry_policy))
          EXCEPT !.pc = "acquire"])
  /\ pc' = "fallback"
  /\ UNCHANGED <<program, config, call, history, heap, semaphore,
                 active_states, superstep, self_final_state, final_state,
                 next_active_states, first, idx, outcome, disk>>

\* a raise that first commits the superstep (pending map and counter)
AwaitFailureRaiseAdvancing ==
  /\ pc = "await"
  /\ AllStarted
  /\ CaughtAsFailure(tasks[idx])
  /\ FallbackOf(graph, tasks[idx].node_id) = NONE
  /\ outcome' = GraphExecutionError(tasks[idx].node_id, "node failed", NONE)
  /\ pc' = "raised"
  /\ active_states' = next_active_states
  /\ superstep' = superstep + 1
  /\ UNCHANGED <<program, config, call, history, heap, semaphore,
                 self_final_state, final_state,
                 next_active_states, tasks, first, idx, disk>>

\* faulty variant: the exception of whichever task has failed is raised at
\* once, as asyncio.gather would
AnyFailedTask ==
  IF \E j \in first..LastPrimary : tasks[j].pc = "failed"
  THEN CHOOSE j \in first..LastPrimary : tasks[j].pc = "failed"
  ELSE idx

\* for node_id, task, original_input in tasks: ... await task
\* the task whose exception execute sees is the one the loop is awaiting
RaisingTask == idx

\* except Exception as e: without fallback, raise GraphExecutionError
AwaitFailureRaise ==
  /\ pc = "await"
  /\ AllStarted
  /\ CaughtAsFailure(tasks[RaisingTask])
  /\ FallbackOf(graph, tasks[RaisingTask].node_id) = NONE
  /\ outcome' = GraphExecutionError(tasks[RaisingTask].node_id, "node failed",
                                    NONE)
  /\ pc' = "raised"
  /\ UNCHANGED <<program, config, call, history, heap, semaphore,
                 active_states, superstep, self_final_state, final_state,
                 next_active_states, tasks, first, idx, disk>>

\* the fallback returned: its result is routed like the node's own
FallbackSuccess ==
  /\ pc = "fallback"
  /\ Last(tasks).pc = "done"
  /\ RouteAndContinue(Last(tasks), Last(tasks).result)
  /\ UNCHANGED <<program, config, call, history, semaphore, active_states,
                 superstep, self_final_state, tasks, first, disk>>

\* except Exception as fallback_error: raise GraphExecutionError(fallback_id, ...)
FallbackFailure ==
  /\ pc = "fallback"
  /\ Last(tasks).pc \in {"failed", "timeout"}
  /\ outcome' = GraphExecutionError(Last(tasks).exec_id, "Fallback node failed", NONE)
  /\ pc' = "raised"
  /\ UNCHANGED <<program, config, call, history, heap, semaphore,
                 active_states, superstep, self_final_state, final_state,
                 next_active_states, tasks, first, idx, disk>>

\* ----------------------------------------------------------- checkpoint
\* faulty variant: a checkpoint after every superstep
ShouldCheckpointAlways(path, every, step) == path # NONE /\ every # 0

\* if self.checkpoint_path and self.checkpoint_every and
\*    self.superstep % self.checkpoint_every == 0
ShouldCheckpoint(path, every, step) ==
  path # NONE /\ every # 0 /\ step % every = 0

\* self.to_checkpoint() pickled by CheckpointData.save: the objects by value
CheckpointData(h, pending, step, final, policy, workers, initial) ==
  [exists |-> TRUE, complete |-> TRUE, superstep |-> step,
   active_states |-> MapValue(h, pending),
   final_state |-> ValueOf(h, final), initial_state |-> h[initial],
   retry_policy |-> policy, max_workers |-> workers]

\* open(path, "wb"): the file is created or truncated, nothing written yet
OpenForWrite(d) == [NoCheckpoint EXCEPT !.exists = TRUE]

\* CheckpointData.load(path): what a reader of the file gets
load(d) ==
  IF ~d.exists THEN "FileNotFoundError"
  ELSE IF ~d.complete THEN "UnpicklingError"
  ELSE "CheckpointData"

\* self.active_states = next_active_states; self.superstep += 1; at a
\* checkpoint boundary to_checkpoint().save(path) opens the file
Advance ==
  /\ pc = "advance"
  /\ active_states' = next_active_states
  /\ superstep' = superstep + 1
  /\ IF ShouldCheckpoint(checkpoint_path, checkpoint_every, superstep + 1)
     THEN /\ disk' = OpenForWrite(disk)
          /\ pc' = "saving"
     ELSE /\ UNCHANGED disk
          /\ pc' = "loop"
  /\ UNCHANGED <<program, config, call, history, heap, semaphore,
                 self_final_state, final_state, next_active_states, tasks,
                 first, idx, outcome>>

\* pickle.dump(self, f) wrote the whole record and the file was closed
SaveComplete ==
  /\ pc = "saving"
  /\ LET c == CheckpointData(heap, active_states, superstep,
                             self_final_state, retry_policy, max_workers,
                             initial_state)
     IN /\ disk' = c
        /\ saved' = IF run = "first" THEN saved \cup {c} ELSE saved
  /\ pc' = "loop"
  /\ UNCHANGED <<program, config, call, run, first_outcome, resumed_from,
                 heap, semaphore,
                 active_states, superstep, self_final_state, final_state,
                 next_active_states, tasks, first, idx, outcome>>

\* pickle.dump raised part-way (an object that cannot be pickled, a full
\* disk) or the process died: the exception leaves execute as it is
SaveInterrupted ==
  /\ pc = "saving"
  /\ outcome' = [NoOutcome EXCEPT !.kind = "Exception",
                                  !.message = "checkpoint save failed"]
  /\ pc' = "raised"
  /\ UNCHANGED <<program, config, call, history, heap, semaphore,
                 active_states, superstep, self_final_state, final_state,
                 next_active_states, tasks, first, idx, disk>>

RECURSIVE Unpickle(_, _, _, _)
\* pickle.load: every State of the stored pending map is a new object
Unpickle(h, stored, i, acc) ==
  IF i > Len(stored) THEN [heap |-> h, pending |-> acc]
  ELSE Unpickle(h \o stored[i][2], stored, i + 1,
         Append(acc, <<stored[i][1],
                       [j \in DOMAIN stored[i][2] |-> Len(h) + j]>>))

\* faulty variant: the pending map the constructor made is kept
ConstructorActiveStates(constructed, restored) == constructed

\* executor.active_states = chkpt.active_states
RestoredActiveStates(constructed, restored) == restored

\* faulty variant: the counter the constructor set is kept
ConstructorSuperstep(c) == 0

\* executor.superstep = chkpt.superstep
RestoredSuperstep(c) == c.superstep

\* CheckpointData.load + GraphExecutor.from_checkpoint, in a new process,
\* once the first run is over; c is any checkpoint the first run wrote
Resume(c) ==
  /\ run = "first"
  /\ pc \in {"returned", "raised"}
  /\ c \in saved
  /\ LET u == Unpickle(<<c.initial_state>>, c.active_states, 1, <<>>)
         f == IF c.final_state = <<>> THEN u.heap
              ELSE u.heap \o c.final_state
     IN /\ heap' = f
        /\ active_states' =
             RestoredActiveStates(<<<<graph.start_node, <<1>>>>>>, u.pending)
        /\ self_final_state' = IF c.final_state = <<>> THEN NoRef ELSE Len(f)
  /\ initial_state' = 1
  /\ max_workers' = c.max_workers
  /\ retry_policy' = c.retry_policy
  /\ semaphore' = c.max_workers
  /\ checkpoint_path' = NONE
  /\ checkpoint_every' = 0
  /\ superstep' = RestoredSuperstep(c)
  /\ final_state' = NoRef
  /\ next_active_states' = <<>>
  /\ tasks' = <<>>
  /\ first' = 1
  /\ idx' = 1
  /\ outcome' = NoOutcome
  /\ first_outcome' = outcome
  /\ resumed_from' = c
  /\ run' = "resumed"
  /\ pc' = "init"
  /\ UNCHANGED <<program, call, disk, saved>>

Next ==
  \/ \E ms \in 0..MaxSuperstepsBound, te \in BOOLEAN : Execute(ms, te)
  \/ LoopDispatch
  \/ MaxSuperstepsReached
  \/ ReturnFinal
  \/ \E i \in DOMAIN tasks : TaskBlock(i)
  \/ \E i \in DOMAIN tasks : TaskAcquire(i)
  \/ \E i \in DOMAIN tasks : TaskSucceed(i)
  \/ \E i \in DOMAIN tasks : TaskRaise(i)
  \/ \E i \in DOMAIN tasks : TaskWake(i)
  \/ \E i \in DOMAIN tasks : TaskTimeout(i)
  \/ AwaitSuccess
  \/ AwaitTimeout
  \/ AwaitFailureFallback
  \/ AwaitFailureRaise
  \/ FallbackSuccess
  \/ FallbackFailure
  \/ Advance
  \/ SaveComplete
  \/ SaveInterrupted
  \/ \E c \in saved : Resume(c)

Spec == Init /\ [][Next]_vars

\* ----------------------------------------------------- one call, scheduled
\* One call of execute under the event loop's scheduling: a coroutine that can
\* run is run (the steps of execute and of the tasks, the end of a sleep, a
\* node action that returns or raises).  Whether a timer expires is left open.
\* No checkpoint file is configured and failed attempts leave their input alone.
ScheduledInit ==
  /\ Init
  /\ checkpoint_path = NONE
  /\ dirty = FALSE

Step ==
  \/ \E ms \in 0..MaxSuperstepsBound, te \in BOOLEAN : Execute(ms, te)
  \/ LoopDispatch
  \/ MaxSuperstepsReached
  \/ ReturnFinal
  \/ \E i \in DOMAIN tasks : TaskBlock(i)
  \/ \E i \in DOMAIN tasks : TaskAcquire(i)
  \/ \E i \in DOMAIN tasks : TaskSucceed(i)
  \/ \E i \in DOMAIN tasks : TaskRaise(i)
  \/ \E i \in DOMAIN tasks : TaskWake(i)
  \/ AwaitSuccess
  \/ AwaitTimeout
  \/ AwaitFailureFallback
  \/ AwaitFailureRaise
  \/ FallbackSuccess
  \/ FallbackFailure
  \/ Advance

ScheduledNext ==
  \/ Step
  \/ \E i \in DOMAIN tasks : TaskTimeout(i)

ScheduledSpec == ScheduledInit /\ [][ScheduledNext]_vars /\ WF_vars(Step)

\* ------------------------------------------------------------- two runs
\* The same program run twice: a second GraphExecutor is constructed on the
\* same graph and initial State with the same arguments, and execute is
\* called with the same max_supersteps.  Checkpoints are written after every
\* superstep, so `saved` keeps the first run's pending map of every superstep;
\* no timer expires and no write fails in either run.
TwoRunsInit ==
  /\ Init
  /\ checkpoint_path = "ckpt.pkl"
  /\ checkpoint_every = 1

\* GraphExecutor.__init__ once more, after the first run is over
Rerun ==
  /\ run = "first"
  /\ pc \in {"returned", "raised"}
  /\ heap' = <<InitialMessages>>
  /\ active_states' = <<<<graph.start_node, <<initial_state>>>>>>
  /\ semaphore' = max_workers
  /\ superstep' = 0
  /\ self_final_state' = NoRef
  /\ final_state' = NoRef
  /\ next_active_states' = <<>>
  /\ tasks' = <<>>
  /\ first' = 1
  /\ idx' = 1
  /\ outcome' = NoOutcome
  /\ first_outcome' = outcome
  /\ run' = "second"
  /\ pc' = "init"
  /\ UNCHANGED <<program, config, call, disk, saved, resumed_from>>

TwoRunsNext ==
  \/ \E ms \in 0..MaxSuperstepsBound : Execute(ms, FALSE)
  \/ LoopDispatch
  \/ MaxSuperstepsReached
  \/ ReturnFinal
  \/ \E i \in DOMAIN tasks : TaskBlock(i)
  \/ \E i \in DOMAIN tasks : TaskAcquire(i)
  \/ \E i \in DOMAIN tasks : TaskSucceed(i)
  \/ \E i \in DOMAIN tasks : TaskRaise(i)
  \/ \E i \in DOMAIN tasks : TaskWake(i)
  \/ AwaitSuccess
  \/ AwaitTimeout
  \/ AwaitFailureFallback
  \/ AwaitFailureRaise
  \/ FallbackSuccess
  \/ FallbackFailure
  \/ Advance
  \/ SaveComplete
  \/ Rerun

TwoRunsSpec == TwoRunsInit /\ [][TwoRunsNext]_vars

\* ------------------------------------------------------ the builder alone
\* Sequences of GraphBuilder calls, before any executor exists.  The
\* executor's variables are those of an executor that was never run.
MaxEdgesBound == 2        \* edge calls are made while the graph has fewer edges

BuilderIds == {"start", "end", "a"}
BuilderSinks ==
  {<<x>> : x \in BuilderIds} \cup {<<x, y>> : x, y \in BuilderIds}
BuilderRouters == {"loop_router", "undecorated"}

executor ==
  <<fails, dirty, heap, initial_state, max_workers, retry_policy,
    checkpoint_path, checkpoint_every, semaphore, active_states, superstep,
    self_final_state, pc, max_supersteps, timer_may_expire, final_state,
    next_active_states, tasks, first, idx, outcome, disk, saved, run,
    first_outcome, resumed_from>>

BuilderInit ==
  /\ graph = GraphBuilder
  /\ last_call = NoCall
  /\ built = <<>>
  /\ node_objects = <<>> /\ tables = <<>>
  /\ NoAICall
  /\ fails = <<>> /\ dirty = FALSE
  /\ heap = <<InitialMessages>> /\ initial_state = 1
  /\ max_workers = 1 /\ retry_policy = RetryPolicy(0)
  /\ checkpoint_path = NONE /\ checkpoint_every = 0
  /\ semaphore = 1 /\ active_states = <<>> /\ superstep = 0
  /\ self_final_state = NoRef /\ pc = "building"
  /\ max_supersteps = 0 /\ timer_may_expire = FALSE
  /\ final_state = NoRef /\ next_active_states = <<>>
  /\ tasks = <<>> /\ first = 1 /\ idx = 1
  /\ outcome = NoOutcome /\ disk = NoCheckpoint /\ saved = {}
  /\ run = "first" /\ first_outcome = NoOutcome
  /\ resumed_from = NoCheckpoint

Called(op, source, sinks, router, r) ==
  /\ graph' = r.graph
  /\ last_call' = [op |-> op, source |-> source, sinks |-> sinks,
                   router |-> router, error |-> r.error, before |-> graph]
  /\ built' = IF op = "build_graph" /\ r.error = NONE THEN <<r.graph>>
              ELSE built
  /\ UNCHANGED <<executor, node_objects, tables, ai>>

EdgeCount(g) == Len(g.concrete_edges) + Len(g.conditional_edges)

AddNode(node_id) ==
  Called("add_node", node_id, <<>>, NONE,
         add_node(graph, Node(node_id, "processing")))

SetFallbackNode(node_id, fallback_node_id) ==
  Called("set_fallback_node", node_id, <<fallback_node_id>>, NONE,
         set_fallback_node(graph, node_id, fallback_node_id))

AddConcreteEdge(source_id, sink_id) ==
  /\ EdgeCount(graph) < MaxEdgesBound
  /\ Called("add_concrete_edge", source_id, <<sink_id>>, NONE,
            add_concrete_edge(graph, source_id, sink_id))

AddConditionalEdge(source_id, sink_ids, router) ==
  /\ EdgeCount(graph) < MaxEdgesBound
  /\ Called("add_conditional_edge", source_id, sink_ids, router,
            add_conditional_edge(graph, source_id, sink_ids, router))

BuildGraph ==
  Called("build_graph", NONE, <<>>, NONE, build_graph(graph))

BuilderNext ==
  \/ \E n \in BuilderIds : AddNode(n)
  \/ \E f \in BuilderIds : SetFallbackNode("a", f)
  \/ \E u, v \in BuilderIds : AddConcreteEdge(u, v)
  \/ \E u \in BuilderIds, vs \in BuilderSinks, r \in BuilderRouters :
        AddConditionalEdge(u, vs, r)
  \/ BuildGraph

BuilderSpec == BuilderInit /\ [][BuilderNext]_vars

\* ------------------------------------------------------------ two builders
\* Two GraphBuilders of one program and the Node objects they are handed.
\* Here a node table holds object ids, so that one Node object given to both
\* builders is one object with one pair of edge lists.
NodeObject(node_id) ==
  [node_id |-> node_id, incoming_edges |-> <<>>, outgoing_edges |-> <<>>]

\* an edge object: the builder that made it and its two Node objects
EdgeObject(b, source, sink) == [builder |-> b, source |-> source, sink |-> sink]

\* objects 1, 2 and 3, 4 are the start and end nodes the two constructors
\* make; 5 and 6 are ProcessingNode("a") and ProcessingNode("b") of the caller
UserObjects == {5, 6}
TableIds == {"start", "end", "a", "b"}

TwoBuildersInit ==
  /\ graph = GraphBuilder
  /\ last_call = NoCall
  /\ built = <<>>
  /\ node_objects = <<NodeObject("start"), NodeObject("end"),
                      NodeObject("start"), NodeObject("end"),
                      NodeObject("a"), NodeObject("b")>>
  /\ tables = <<[nodes |-> [n \in {"start", "end"} |->
                              IF n = "start" THEN 1 ELSE 2],
                 concrete_edges |-> <<>>],
                [nodes |-> [n \in {"start", "end"} |->
                              IF n = "start" THEN 3 ELSE 4],
                 concrete_edges |-> <<>>]>>
  /\ NoAICall
  /\ fails = <<>> /\ dirty = FALSE
  /\ heap = <<InitialMessages>> /\ initial_state = 1
  /\ max_workers = 1 /\ retry_policy = RetryPolicy(0)
  /\ checkpoint_path = NONE /\ checkpoint_every = 0
  /\ semaphore = 1 /\ active_states = <<>> /\ superstep = 0
  /\ self_final_state = NoRef /\ pc = "building"
  /\ max_supersteps = 0 /\ timer_may_expire = FALSE
  /\ final_state = NoRef /\ next_active_states = <<>>
  /\ tasks = <<>> /\ first = 1 /\ idx = 1
  /\ outcome = NoOutcome /\ disk = NoCheckpoint /\ saved = {}
  /\ run = "first" /\ first_outcome = NoOutcome
  /\ resumed_from = NoCheckpoint

TableCalled(op, source, sinks, error) ==
  /\ last_call' = [op |-> op, source |-> source, sinks |-> sinks,
                   router |-> NONE, error |-> error, before |-> Graph]
  /\ UNCHANGED <<executor, graph, built, ai>>

\* if node.node_id in self.graph.nodes: raise DuplicateNodeError
NodeRejected(b, o) == node_objects[o].node_id \in DOMAIN tables[b].nodes

\* builder b: add_node(node) with the Node object o
TableAddNode(b, o) ==
  LET id == node_objects[o].node_id IN
  IF NodeRejected(b, o)
  THEN /\ TableCalled("add_node", id, <<>>, "DuplicateNodeError")
       /\ UNCHANGED <<node_objects, tables>>
  ELSE /\ tables' = [tables EXCEPT ![b].nodes =
                       [n \in (DOMAIN @) \cup {id} |->
                          IF n = id THEN o ELSE @[n]]]
       /\ TableCalled("add_node", id, <<>>, NONE)
       /\ UNCHANGED node_objects

TableEdgeCount == Len(tables[1].concrete_edges) + Len(tables[2].concrete_edges)

\* builder b: add_concrete_edge(source_id, sink_id)
TableAddConcreteEdge(b, source_id, sink_id) ==
  LET g == tables[b]
      error ==
        IF source_id \notin DOMAIN g.nodes THEN "NodeNotFoundError"
        ELSE IF source_id = "end" THEN "GraphConfigurationError"
        ELSE IF sink_id \notin DOMAIN g.nodes THEN "NodeNotFoundError"
        ELSE IF ReservedSink(sink_id) THEN "GraphConfigurationError"
        ELSE IF \E i \in DOMAIN g.concrete_edges :
                  /\ g.concrete_edges[i].source = g.nodes[source_id]
                  /\ g.concrete_edges[i].sink = g.nodes[sink_id]
        THEN "EdgeExistsError"
        ELSE NONE
  IN /\ TableEdgeCount < MaxEdgesBound
     /\ TableCalled("add_concrete_edge", source_id, <<sink_id>>, error)
     /\ IF error # NONE THEN UNCHANGED <<node_objects, tables>>
        ELSE LET source == g.nodes[source_id]
                 sink == g.nodes[sink_id]
                 edge == EdgeObject(b, source, sink)
                 o1 == [node_objects EXCEPT
                          ![source].outgoing_edges = Append(@, edge)]
             IN /\ tables' = [tables EXCEPT
                                ![b].concrete_edges = Append(@, edge)]
                /\ node_objects' = [o1 EXCEPT
                                      ![sink].incoming_edges = Append(@, edge)]

TwoBuildersNext ==
  \/ \E b \in 1..2, o \in UserObjects : TableAddNode(b, o)
  \/ \E b \in 1..2, u, v \in TableIds : TableAddConcreteEdge(b, u, v)

TwoBuildersSpec == TwoBuildersInit /\ [][TwoBuildersNext]_vars

\* --------------------------------------------------------- the AI action
\* Invocations of one AIActionBase object by the coroutines that share it.
MaxInvocationsBound == 4  \* __call__ is entered at most this many times
MaxBuildFailsBound == 1   \* build_model raises on at most this many calls

AIInit ==
  /\ graph = GraphBuilder
  /\ last_call = NoCall
  /\ built = <<>>
  /\ node_objects = <<>> /\ tables = <<>>
  /\ \E sets_flag \in BOOLEAN, build_fails \in 0..MaxBuildFailsBound :
       ai_action = AIActionBase(sets_flag, build_fails)
  /\ ai_log = <<>>
  /\ ai_pc = [k \in AICallers |-> "idle"]
  /\ fails = <<>> /\ dirty = FALSE
  /\ heap = <<InitialMessages>> /\ initial_state = 1
  /\ max_workers = 1 /\ retry_policy = RetryPolicy(0)
  /\ checkpoint_path = NONE /\ checkpoint_every = 0
  /\ semaphore = 1 /\ active_states = <<>> /\ superstep = 0
  /\ self_final_state = NoRef /\ pc = "building"
  /\ max_supersteps = 0 /\ timer_may_expire = FALSE
  /\ final_state = NoRef /\ next_active_states = <<>>
  /\ tasks = <<>> /\ first = 1 /\ idx = 1
  /\ outcome = NoOutcome /\ disk = NoCheckpoint /\ saved = {}
  /\ run = "first" /\ first_outcome = NoOutcome
  /\ resumed_from = NoCheckpoint

\* __call__ up to `await result_or_coro`: the flag test, build_model when the
\* flag is not set, then the call of process_state
AIInvoke(k) ==
  /\ ai_pc[k] # "processing"
  /\ ai_action.invocations < MaxInvocationsBound
  /\ LET a == [ai_action EXCEPT !.invocations = @ + 1] IN
     IF ~a._model_built
     THEN LET b == build_model(a) IN
          /\ ai_action' = b.action
          /\ IF b.raised
             THEN /\ ai_log' = Append(ai_log, "build_model")
                  /\ ai_pc' = [ai_pc EXCEPT ![k] = "raised"]
             ELSE /\ ai_log' = ai_log \o <<"build_model", "process_state">>
                  /\ ai_pc' = [ai_pc EXCEPT ![k] = "processing"]
     ELSE /\ ai_action' = a
          /\ ai_log' = Append(ai_log, "process_state")
          /\ ai_pc' = [ai_pc EXCEPT ![k] = "processing"]
  /\ UNCHANGED <<executor, graph, last_call, built, node_objects, tables>>

\* process_state returned a State: __call__ returns it
AIReturn(k) ==
  /\ ai_pc[k] = "processing"
  /\ ai_pc' = [ai_pc EXCEPT ![k] = "returned"]
  /\ UNCHANGED <<executor, graph, last_call, built, node_objects, tables,
                 ai_action, ai_log>>

\* process_state raised, or returned no State (InvalidAIActionOutput)
AIRaise(k) ==
  /\ ai_pc[k] = "processing"
  /\ ai_pc' = [ai_pc EXCEPT ![k] = "raised"]
  /\ UNCHANGED <<executor, graph, last_call, built, node_objects, tables,
                 ai_action, ai_log>>

AINext ==
  \/ \E k \in AICallers : AIInvoke(k)
  \/ \E k \in AICallers : AIReturn(k)
  \/ \E k \in AICallers : AIRaise(k)

AISpec == AIInit /\ [][AINext]_vars

\* ===================================================================
\* Properties
\* ===================================================================
Started(t) == t.pc # "created"
IsFatal(o) == o.kind = "GraphExecutionError" /\ o.message # "Max supersteps reached"
Executing == {i \in DOMAIN tasks : tasks[i].pc = "executing"}
Primaries == {i \in DOMAIN tasks : tasks[i].role = "primary"}
Fallbacks == {i \in DOMAIN tasks : tasks[i].role = "fallback"}
\* the primary task a fallback task stands in for
PrimaryOf(j) ==
  CHOOSE i \in Primaries :
    tasks[i].node_id = tasks[j].node_id /\ tasks[i].step = tasks[j].step
\* the tasks of the current superstep whose result the await loop has routed
Routed == {i \in Primaries : first <= i /\ i < idx}
\* the State a visit produced: the fallback's when there is one
ResultOf(i) ==
  IF \E j \in Fallbacks : PrimaryOf(j) = i
  THEN tasks[CHOOSE j \in Fallbacks : PrimaryOf(j) = i].result
  ELSE tasks[i].result
AllRefs(m) == UNION {SeqToSet(m[p][2]) : p \in DOMAIN m}

RECURSIVE CountRefs(_, _)
CountRefs(m, p) == IF p > Len(m) THEN 0 ELSE Len(m[p][2]) + CountRefs(m, p + 1)

RECURSIVE CountEdges(_)
CountEdges(S) ==
  IF S = {} THEN 0
  ELSE LET i == CHOOSE x \in S : TRUE
       IN Len(graph.nodes[tasks[i].node_id].outgoing_edges) + CountEdges(S \ {i})

\* C1 (superstep barrier): whenever a task of a later superstep has started
\* (primary attempt, retry or fallback), every task of every earlier
\* superstep has finished (returned, failed or timed out).
C1_Barrier ==
  \A i, j \in DOMAIN tasks :
    (tasks[i].step < tasks[j].step /\ Started(tasks[j]))
      => tasks[i].pc \in Finished

\* two sibling tasks of superstep 1 have finished and a task of superstep 2
\* is inside node.execute
C1_Witness ==
  \E i, k, j \in DOMAIN tasks :
    /\ i # k /\ tasks[i].step = 1 /\ tasks[k].step = 1
    /\ tasks[j].step = 2 /\ tasks[j].pc = "executing"

\* C2 (concurrency bound): the tasks inside node.execute, fallbacks
\* included, never outnumber max_workers.
C2_ConcurrencyBound == Cardinality(Executing) <= max_workers

\* with one worker, a task is inside node.execute while a sibling of the
\* same superstep waits for the slot
C2_Witness ==
  /\ max_workers = 1
  /\ \E i, j \in DOMAIN tasks :
       /\ tasks[i].pc = "executing" /\ tasks[j].pc = "acquire"
       /\ tasks[i].step = tasks[j].step /\ i # j

\* C3 (checkpoint equivalence): with no timeout expiring and no save of the
\* first run interrupted, an executor built from any checkpoint the first run
\* wrote ends as the first run did: the same kind of outcome, the same final
\* State, the same error.
C3_CheckpointEquivalence ==
  (/\ run = "resumed" /\ ~timer_may_expire /\ pc \in {"returned", "raised"}
   /\ first_outcome.kind # "Exception")
    => /\ outcome.kind = first_outcome.kind
       /\ outcome.value = first_outcome.value
       /\ outcome.node_id = first_outcome.node_id
       /\ outcome.message = first_outcome.message

\* C4 (retry bound): a visit invokes the node's action at most
\* max_retries + 1 times; a visit whose attempts all raised made exactly
\* max_retries + 1 invocations; and a failed visit of a node without fallback
\* is never passed by the await loop: execute raises GraphExecutionError
\* naming that node.
C4_RetryBound ==
  /\ \A i \in DOMAIN tasks :
       /\ tasks[i].calls <= retry_policy.max_retries + 1
       /\ tasks[i].pc = "failed" => tasks[i].calls = retry_policy.max_retries + 1
  /\ \A i \in Primaries :
       (/\ tasks[i].pc = "failed"
        /\ FallbackOf(graph, tasks[i].node_id) = NONE)
         => /\ idx <= i
            /\ pc \in {"await", "raised"}
            /\ (pc = "raised" /\ idx = i)
                 => /\ outcome.kind = "GraphExecutionError"
                    /\ outcome.node_id = tasks[i].node_id

\* a node without fallback failed both of its attempts and execute raised
C4_Witness ==
  /\ retry_policy.max_retries = 1
  /\ pc = "raised" /\ idx \in DOMAIN tasks
  /\ tasks[idx].pc = "failed" /\ tasks[idx].calls = 2
  /\ outcome.node_id = tasks[idx].node_id /\ outcome.message = "node failed"

\* C5 (fallback): a fallback task exists only for a visit that raised on all
\* max_retries + 1 attempts; everything in the next pending map sits at a
\* sink of an outgoing edge of a node visited in this superstep (never at a
\* sink of the fallback node's own edges), a routed visit delivered its
\* result at the sink of each of the node's concrete edges, and a visit whose
\* fallback returned never makes execute raise a failure error.
C5_Fallback ==
  /\ \A j \in Fallbacks :
       /\ tasks[PrimaryOf(j)].pc = "failed"
       /\ tasks[PrimaryOf(j)].calls = retry_policy.max_retries + 1
       /\ tasks[j].exec_id = FallbackOf(graph, tasks[j].node_id)
  /\ pc \in {"await", "fallback", "advance"} =>
       /\ \A k \in Keys(next_active_states) :
            \E i \in Routed :
              \E e \in DOMAIN graph.nodes[tasks[i].node_id].outgoing_edges :
                k \in SeqToSet(graph.nodes[tasks[i].node_id].outgoing_edges[e].sinks)
       /\ \A i \in Routed :
            \A e \in DOMAIN graph.nodes[tasks[i].node_id].outgoing_edges :
              LET edge == graph.nodes[tasks[i].node_id].outgoing_edges[e] IN
              edge.kind = "concrete" =>
                \E r \in SeqToSet(Get(next_active_states, edge.sinks[1])) :
                  heap[r] = heap[ResultOf(i)]
  /\ \A j \in Fallbacks :
       (tasks[j].pc = "done" /\ pc = "raised" /\ idx = PrimaryOf(j))
         => outcome.message \notin {"node failed", "Fallback node failed"}

\* node a failed, its fallback f returned and the result is pending at end,
\* the sink of a's edge
C5_Witness ==
  /\ pc = "advance"
  /\ \E j \in Fallbacks :
       /\ tasks[j].pc = "done" /\ tasks[j].step = superstep
       /\ tasks[j].node_id = "a" /\ tasks[j].exec_id = "f"
       /\ Keys(next_active_states) = {"end"}
       /\ heap[Get(next_active_states, "end")[1]] = heap[tasks[j].result]

\* C6 (cancellation on fatal error): once execute has raised a fatal error,
\* no task is still pending: every task has finished.
C6_CancelledOnFatal ==
  (pc = "raised" /\ IsFatal(outcome))
    => \A i \in DOMAIN tasks : tasks[i].pc \in Finished

\* C7 (no advance on fatal error): from the dispatch of a superstep on, and
\* after execute has raised, no step changes the executor's pending map, its
\* superstep counter or the checkpoint file, and the States pending for
\* the nodes that receive a copy keep their value; only the advance at the
\* end of a superstep that completed routes results into the pending map.
C7_NoAdvanceOnFatal ==
  [][(pc \in {"await", "fallback", "raised"} /\ run' = run)
       => /\ active_states' = active_states
          /\ superstep' = superstep
          /\ disk' = disk
          /\ saved' = saved
          /\ \A p \in DOMAIN active_states :
               graph.nodes[active_states[p][1]].kind # "aggregator"
                 => \A r \in SeqToSet(active_states[p][2]) :
                      heap'[r] = heap[r]]_vars

\* execute raised a fatal error in superstep 1 after a sibling's result had
\* been routed into next_active_states; the executor is still at superstep 1
C7_Witness ==
  /\ pc = "raised" /\ IsFatal(outcome)
  /\ superstep = 1 /\ idx \in DOMAIN tasks /\ tasks[idx].step = 1
  /\ \E i \in Routed : tasks[i].pc = "done"
  /\ next_active_states # <<>>
  /\ Keys(active_states) = {"a", "b"}

C9_RoutingTotality ==
  /\ pc \in {"await", "fallback", "advance"} =>
       /\ Keys(next_active_states) \subseteq DOMAIN graph.nodes
       /\ CountRefs(next_active_states, 1) = CountEdges(Routed)
       /\ \A i \in Routed :
            \A e \in DOMAIN graph.nodes[tasks[i].node_id].outgoing_edges :
              LET edge == graph.nodes[tasks[i].node_id].outgoing_edges[e]
                  chosen_id == Router(edge.routing_function, heap[ResultOf(i)])
              IN edge.kind = "conditional" =>
                   /\ chosen_id \in SeqToSet(edge.sinks)
                   /\ \E r \in SeqToSet(Get(next_active_states, chosen_id)) :
                        heap[r] = heap[ResultOf(i)]
  /\ (pc = "raised" /\ outcome.message = "Invalid routing output") =>
       /\ outcome.node_id = tasks[idx].node_id
       /\ outcome.detail \notin Keys(next_active_states)
       /\ \E e \in DOMAIN graph.nodes[tasks[idx].node_id].outgoing_edges :
            LET edge == graph.nodes[tasks[idx].node_id].outgoing_edges[e] IN
            /\ edge.kind = "conditional"
            /\ outcome.detail = Router(edge.routing_function, heap[ResultOf(idx)])
            /\ outcome.detail \notin SeqToSet(edge.sinks)

\* the router sent the first visit of loop back to loop, a declared sink,
\* and answered "ghost" on the second: execute raised naming "ghost"
C9_Witness ==
  /\ pc = "raised"
  /\ outcome.message = "Invalid routing output" /\ outcome.detail = "ghost"
  /\ superstep = 2
  /\ \E i \in Primaries : tasks[i].node_id = "loop" /\ tasks[i].step = 1
  /\ tasks[idx].node_id = "loop" /\ tasks[idx].step = 2
  /\ next_active_states = <<>>

\* C10 (max supersteps): no task belongs to a superstep with index
\* >= max_supersteps; the max-supersteps error is raised only with the
\* counter at max_supersteps or beyond; and on the graph whose node always
\* routes to itself, with no timeout and no failing checkpoint save,
\* execute(max_supersteps = N) ends only by raising that error, with the
\* counter at N and tasks of exactly the supersteps 0 .. N-1.
C10_MaxSupersteps ==
  /\ pc # "init" => \A i \in DOMAIN tasks : tasks[i].step < max_supersteps
  /\ (pc = "raised" /\ outcome.message = "Max supersteps reached")
       => superstep >= max_supersteps /\ outcome.node_id = "N/A"
  /\ (/\ graph = LoopGraph("loop_router") /\ ~timer_may_expire
      /\ run = "first" /\ pc \in {"returned", "raised"}
      /\ outcome.kind # "Exception")
       => /\ outcome = GraphExecutionError("N/A", "Max supersteps reached", NONE)
          /\ superstep = max_supersteps
          /\ {tasks[i].step : i \in DOMAIN tasks} = 0..(max_supersteps - 1)

\* the self-routing graph run with max_supersteps = 3: three supersteps
\* were executed and execute raised
C10_Witness ==
  /\ graph = LoopGraph("loop_router")
  /\ max_supersteps = 3 /\ superstep = 3
  /\ pc = "raised" /\ outcome.message = "Max supersteps reached"
  /\ {tasks[i].step : i \in DOMAIN tasks} = {0, 1, 2}

\* the node's own retry policy when it has one, else the executor's
NodePolicyOrDefault(node, default) ==
  IF node.retry_policy # <<>> THEN node.retry_policy[1] ELSE default

\* C11 (per-node retry override): a visit of a node that has its own
\* retry_policy makes at most that policy's max_retries + 1 calls of the
\* action and gives up only after exactly that many; a node without its own
\* policy is bound by the executor's policy in the same way.
C11_NodePolicyOverride ==
  \A i \in DOMAIN tasks :
    LET p == NodePolicyOrDefault(graph.nodes[tasks[i].exec_id], retry_policy)
    IN /\ tasks[i].calls <= p.max_retries + 1
       /\ tasks[i].pc = "failed" => tasks[i].calls = p.max_retries + 1

\* C12 (timeouts bypass fallback): a node whose task timed out never gets a
\* fallback task, the await loop never moves past it, and when the loop
\* reaches it execute raises the timeout error for that node.
C12_TimeoutBypassesFallback ==
  \A i \in Primaries :
    tasks[i].pc = "timeout"
      => /\ ~ \E j \in Fallbacks : PrimaryOf(j) = i
         /\ idx <= i
         /\ pc \in {"await", "fallback", "raised"}
         /\ idx = i => pc # "fallback"
         /\ (idx = i /\ pc = "raised")
              => outcome = GraphExecutionError(tasks[i].node_id,
                                               "Execution timed out", NONE)

\* node a, which declares the fallback f, timed out: execute raised the
\* timeout error for a and f was never run
C12_Witness ==
  /\ pc = "raised" /\ idx \in DOMAIN tasks
  /\ tasks[idx].node_id = "a" /\ tasks[idx].pc = "timeout"
  /\ FallbackOf(graph, "a") = "f"
  /\ outcome.node_id = "a" /\ outcome.message = "Execution timed out"
  /\ Fallbacks = {}

\* C13 (checkpoint ordering): whenever the executor's counter stands at a
\* checkpoint boundary it has reached, the file already holds the complete
\* record for that counter; and after a save that failed the counter and the
\* pending map are still those of the superstep that was just executed.
C13_PersistBeforeAssign ==
  /\ (/\ run = "first" /\ superstep > 0
      /\ ShouldCheckpoint(checkpoint_path, checkpoint_every, superstep))
       => /\ load(disk) = "CheckpointData"
          /\ disk.superstep = superstep
  /\ outcome.message = "checkpoint save failed"
       => /\ superstep = tasks[first].step
          /\ Keys(active_states) =
               {tasks[i].node_id : i \in {j \in Primaries : j >= first}}

\* C14 (checkpoint file atomicity): at every instant the file at the
\* checkpoint path is absent or is a complete checkpoint that a save of this
\* run wrote; load never meets a partial file.
C14_AtomicFile ==
  /\ load(disk) # "UnpicklingError"
  /\ run = "first" => (disk = NoCheckpoint \/ disk \in saved)

\* C15 (resume skips completed work): an executor built by from_checkpoint
\* starts with the checkpoint's pending map and superstep counter; every
\* task of the resumed run belongs to a superstep from the checkpoint's on,
\* the first tasks are those of the checkpoint's pending map, the start node
\* is never executed again, and when node a ran and execute returned, the
\* final State holds a's output.
C15_ResumeSkipsCompleted ==
  run = "resumed"
    => /\ pc = "init"
            => /\ superstep = resumed_from.superstep
               /\ MapValue(heap, active_states) = resumed_from.active_states
       /\ \A i \in DOMAIN tasks :
            /\ tasks[i].step >= resumed_from.superstep
            /\ tasks[i].exec_id # graph.start_node
            /\ tasks[i].step = resumed_from.superstep
                 => tasks[i].node_id \in
                      {resumed_from.active_states[k][1] :
                         k \in DOMAIN resumed_from.active_states}
       /\ (/\ pc = "returned"
           /\ \E i \in DOMAIN tasks :
                tasks[i].exec_id = "a" /\ tasks[i].pc = "done"
           /\ \E k \in DOMAIN graph.nodes["a"].outgoing_edges :
                graph.nodes["a"].outgoing_edges[k].sinks = <<"end">>)
            => /\ outcome.value # <<>>
               /\ "a" \in SeqToSet(outcome.value[1])

\* resumed from the checkpoint (1, {a: [s]}): only a and end ran, and the
\* State returned holds a's output
C15_Witness ==
  /\ run = "resumed" /\ pc = "returned"
  /\ resumed_from.superstep = 1
  /\ {tasks[i].exec_id : i \in DOMAIN tasks} = {"a", "end"}
  /\ outcome.value = <<InitialMessages \o <<"a">>>>

\* C16 (aggregator input order): the k-th State in the list an aggregator
\* is dispatched with was produced by the source of the k-th edge registered
\* into the aggregator.
C16_AggregatorInputOrder ==
  \A i \in Primaries :
    (/\ graph.nodes[tasks[i].node_id].kind = "aggregator"
     /\ tasks[i].pc \in {"created", "acquire"})
      => /\ Len(tasks[i].input) =
              Len(graph.nodes[tasks[i].node_id].incoming_edges)
         /\ \A k \in DOMAIN tasks[i].input :
              Last(heap[tasks[i].input[k]]) =
                graph.nodes[tasks[i].node_id].incoming_edges[k].source

\* C17 (first-only input): while a superstep is under way, every node of
\* the pending map has exactly one primary task in it and every primary task
\* is for a node of the map; a task of a non-aggregator node received one
\* State, a new object that equals the first pending State of its node until
\* the node's action is called; a task of an aggregator received the pending
\* list itself.
C17_FirstOnlyInput ==
  pc \in {"await", "fallback", "advance"}
    => LET current == {i \in Primaries : i >= first} IN
       /\ \A n \in Keys(active_states) :
            Cardinality({i \in current : tasks[i].node_id = n}) = 1
       /\ \A i \in current :
            /\ tasks[i].node_id \in Keys(active_states)
            /\ tasks[i].step = superstep
            /\ LET states == Get(active_states, tasks[i].node_id) IN
               IF graph.nodes[tasks[i].node_id].kind = "aggregator"
               THEN tasks[i].input = states
               ELSE /\ Len(tasks[i].input) = 1
                    /\ tasks[i].input[1] \notin AllRefs(active_states)
                    /\ tasks[i].calls = 0
                         => heap[tasks[i].input[1]] = heap[states[1]]

\* end, a processing node, has the States of a and of b pending and is
\* dispatched with one State, equal to a's
C17_Witness ==
  /\ pc = "await" /\ idx \in DOMAIN tasks
  /\ tasks[idx].node_id = "end" /\ tasks[idx].pc = "created"
  /\ Len(Get(active_states, "end")) = 2
  /\ heap[Get(active_states, "end")[1]] # heap[Get(active_states, "end")[2]]
  /\ heap[tasks[idx].input[1]] = InitialMessages \o <<"a">>

RECURSIVE PathSupersteps(_, _)
\* the supersteps a graph of concrete edges only takes from node n on: the
\* nodes on its longest path to a node without outgoing edges
PathSupersteps(g, n) ==
  LET out == g.nodes[n].outgoing_edges
      MaxOf(S) == CHOOSE x \in S : \A y \in S : y <= x
  IN IF out = <<>> THEN 1
     ELSE 1 + MaxOf({PathSupersteps(g, out[k].sinks[1]) : k \in DOMAIN out})

\* C18 (retries do not consume supersteps): a task that returned after its
\* node's action raised on the first f attempts made exactly f + 1 calls, all
\* of them in the superstep the task was created in, and its result is the
\* State the last call returned; a run that returns has executed as many
\* supersteps as the graph has levels, whatever the number of failed attempts.
C18_RetriesKeepSuperstep ==
  /\ \A i \in DOMAIN tasks :
       /\ tasks[i].pc = "done"
            => /\ tasks[i].calls = fails[tasks[i].exec_id] + 1
               /\ tasks[i].attempt = fails[tasks[i].exec_id]
               /\ tasks[i].result = tasks[i].input[1]
       /\ (i >= first /\ pc \in {"await", "fallback", "advance"})
            => tasks[i].step = superstep
  /\ (/\ run = "first" /\ pc = "returned"
      /\ graph.conditional_edges = <<>>)
       => superstep = PathSupersteps(graph, graph.start_node)

\* node a raised on its first two attempts and returned on the third; the
\* run returned a's result after the graph's three supersteps
C18_Witness ==
  /\ pc = "returned" /\ run = "first"
  /\ "a" \in DOMAIN fails /\ fails["a"] = 2
  /\ \E i \in Primaries :
       tasks[i].exec_id = "a" /\ tasks[i].pc = "done" /\ tasks[i].calls = 3
  /\ superstep = 3
  /\ outcome.value # <<>> /\ Last(outcome.value[1]) = "a"

RECURSIVE Pow(_, _)
Pow(b, e) == IF e = 0 THEN 1 ELSE b * Pow(b, e - 1)

\* C19 (back-off schedule): the k-th sleep of a task lasts
\* delay * backoff^(k-1); a task has slept once for every attempt that raised
\* and was followed by another attempt, and not after the attempt that made
\* it fail.
C19_BackoffSchedule ==
  \A i \in DOMAIN tasks :
    /\ \A k \in DOMAIN tasks[i].sleeps :
         tasks[i].sleeps[k] =
           tasks[i].policy.delay * Pow(tasks[i].policy.backoff, k - 1)
    /\ tasks[i].pc \in {"done", "failed", "executing"}
         => Len(tasks[i].sleeps) = tasks[i].calls - 1
    /\ tasks[i].pc = "sleeping" => Len(tasks[i].sleeps) = tasks[i].calls
    /\ tasks[i].pc = "failed"
         => Len(tasks[i].sleeps) = tasks[i].policy.max_retries

\* a task failed its three attempts under max_retries = 2: it slept 1, then 2
C19_Witness ==
  \E i \in DOMAIN tasks :
    /\ tasks[i].pc = "failed" /\ tasks[i].calls = 3
    /\ tasks[i].sleeps = <<DefaultDelay, DefaultDelay * DefaultBackoff>>

\* the ordered pairs a graph's edges connect
ConcretePairs(g) ==
  {<<g.concrete_edges[i].source, g.concrete_edges[i].sinks[1]>> :
     i \in DOMAIN g.concrete_edges}
ConditionalPairs(g) ==
  UNION {{<<g.conditional_edges[i].source, v>> :
            v \in SeqToSet(g.conditional_edges[i].sinks)} :
         i \in DOMAIN g.conditional_edges}

\* C20 (edge exclusivity): the builder's graph never has two concrete edges
\* for one ordered pair, nor a concrete edge and a conditional branch for one
\* pair; an edge call on existing nodes (source not end, no sink start)
\* raises EdgeExistsError exactly when one of its pairs is already connected
\* by an edge of either kind, a call that raised left the graph as it was and
\* a call that returned added one edge.
C20_EdgeExclusivity ==
  /\ \A i, j \in DOMAIN graph.concrete_edges :
       (/\ graph.concrete_edges[i].source = graph.concrete_edges[j].source
        /\ graph.concrete_edges[i].sinks = graph.concrete_edges[j].sinks)
         => i = j
  /\ ConcretePairs(graph) \cap ConditionalPairs(graph) = {}
  /\ LET c == last_call
         wellFormed ==
           /\ c.source \in (DOMAIN c.before.nodes) \ {"end"}
           /\ \A v \in SeqToSet(c.sinks) :
                v \in (DOMAIN c.before.nodes) \ {"start"}
         pairs == {<<c.source, v>> : v \in SeqToSet(c.sinks)}
         connected ==
           pairs \cap (ConcretePairs(c.before) \cup ConditionalPairs(c.before))
             # {}
     IN (c.op \in {"add_concrete_edge", "add_conditional_edge"} /\ wellFormed)
          => /\ c.error = "EdgeExistsError" <=> connected
             /\ c.error # NONE => graph = c.before
             /\ c.error = NONE => EdgeCount(graph) = EdgeCount(c.before) + 1

\* add_concrete_edge(a, end) raised EdgeExistsError because a conditional
\* edge of a already has the branch end
C20_Witness ==
  /\ last_call.op = "add_concrete_edge" /\ last_call.error = "EdgeExistsError"
  /\ last_call.source = "a" /\ last_call.sinks = <<"end">>
  /\ <<"a", "end">> \in ConditionalPairs(graph)
  /\ graph.concrete_edges = <<>>

\* the conditional branches of g from u to v: (edge, position in its sinks)
ConditionalBranches(g, u, v) ==
  UNION {{<<i, j>> : j \in {k \in DOMAIN g.conditional_edges[i].sinks :
                               g.conditional_edges[i].sinks[k] = v}} :
         i \in {e \in DOMAIN g.conditional_edges :
                  g.conditional_edges[e].source = u}}

\* C21 (one conditional branch per pair): the builder's graph never has two
\* conditional branches for one ordered pair (u, v), whatever sink list was
\* passed, and an add_conditional_edge call whose sink list would give a
\* pair a second branch (against an earlier edge or within the list itself)
\* raises and leaves the graph as it was.
C21_OneConditionalBranch ==
  /\ \A u, v \in DOMAIN graph.nodes :
       Cardinality(ConditionalBranches(graph, u, v)) <= 1
  /\ LET c == last_call
         repeated == \E j, k \in DOMAIN c.sinks : j # k /\ c.sinks[j] = c.sinks[k]
         taken == \E v \in SeqToSet(c.sinks) :
                    ConditionalBranches(c.before, c.source, v) # {}
     IN (c.op = "add_conditional_edge" /\ (repeated \/ taken))
          => c.error # NONE /\ graph = c.before

\* every edge of g, concrete then conditional
AllEdges(g) == g.concrete_edges \o g.conditional_edges

\* end is the source of no edge and start is the sink of no edge
ReservedEndpointsFree(g) ==
  /\ \A i \in DOMAIN AllEdges(g) :
       /\ AllEdges(g)[i].source # "end"
       /\ "start" \notin SeqToSet(AllEdges(g)[i].sinks)
  /\ g.nodes["end"].outgoing_edges = <<>>
  /\ g.nodes["start"].incoming_edges = <<>>

\* the last call was an edge call naming end as source or start as a sink
NamesReservedEndpoint(c) ==
  /\ c.op \in {"add_concrete_edge", "add_conditional_edge"}
  /\ (c.source = "end" \/ "start" \in SeqToSet(c.sinks))

\* C22 as stated (reserved endpoints): end is the source of no edge, start
\* the sink of no edge, and every edge call that names end as source or
\* start as sink raises GraphConfigurationError and leaves the graph as it
\* was.
C22_ReservedEndpoints ==
  /\ ReservedEndpointsFree(graph)
  /\ NamesReservedEndpoint(last_call)
       => /\ last_call.error = "GraphConfigurationError"
          /\ graph = last_call.before

\* an id the call looks up before it reaches the reserved endpoint is not in
\* the node table: the source, or a sink listed before the first start
UnknownIdFirst(c) ==
  \/ c.source \notin DOMAIN c.before.nodes
  \/ /\ c.source # "end"
     /\ \E j \in DOMAIN c.sinks :
          /\ c.sinks[j] \notin DOMAIN c.before.nodes
          /\ \A k \in 1..j : c.sinks[k] # "start"

\* C22 as amended (reserved endpoints): end is the source of no edge, start
\* the sink of no edge, and every edge call that names end as source or
\* start as sink raises and leaves the graph as it was; the error is
\* NodeNotFoundError when an id looked up earlier in the call is unknown,
\* GraphConfigurationError otherwise.
C22_ReservedEndpointsRejected ==
  /\ ReservedEndpointsFree(graph)
  /\ NamesReservedEndpoint(last_call)
       => /\ last_call.error =
               IF UnknownIdFirst(last_call) THEN "NodeNotFoundError"
               ELSE "GraphConfigurationError"
          /\ graph = last_call.before

\* add_conditional_edge(a, [end, start], router) on a graph that has node a
\* raised GraphConfigurationError and added nothing
C22_Witness ==
  /\ last_call.op = "add_conditional_edge" /\ last_call.source = "a"
  /\ last_call.sinks = <<"end", "start">>
  /\ last_call.error = "GraphConfigurationError"
  /\ "a" \in DOMAIN graph.nodes /\ graph = last_call.before

\* the three conditions build_graph is said to validate, read off the
\* graph's edge lists
StartHasConcrete(g) ==
  \E i \in DOMAIN g.concrete_edges : g.concrete_edges[i].source = "start"
StartHasConditional(g) ==
  \E i \in DOMAIN g.conditional_edges : g.conditional_edges[i].source = "start"
EndHasIncoming(g) ==
  \E i \in DOMAIN AllEdges(g) : "end" \in SeqToSet(AllEdges(g)[i].sinks)

\* C23 (build_graph validation): build_graph returns the graph exactly when
\* start has a concrete outgoing edge, start has no conditional outgoing
\* edge and end has an incoming edge of either kind, and raises
\* GraphConfigurationError otherwise, leaving the graph as it was; the edge
\* calls do not check these conditions: they raise GraphConfigurationError
\* only for end as source or start as sink.
C23_BuildGraphValidation ==
  /\ last_call.op = "build_graph"
       => /\ last_call.error \in {NONE, "GraphConfigurationError"}
          /\ last_call.error = NONE
               <=> /\ StartHasConcrete(last_call.before)
                   /\ ~StartHasConditional(last_call.before)
                   /\ EndHasIncoming(last_call.before)
          /\ graph = last_call.before
  /\ (/\ last_call.op \in {"add_concrete_edge", "add_conditional_edge"}
      /\ last_call.error = "GraphConfigurationError")
       => NamesReservedEndpoint(last_call)

\* build_graph raised on a graph whose start has a concrete edge to end and
\* also a conditional edge, which add_conditional_edge had accepted
C23_Witness ==
  /\ last_call.op = "build_graph"
  /\ last_call.error = "GraphConfigurationError"
  /\ StartHasConcrete(graph) /\ StartHasConditional(graph)
  /\ EndHasIncoming(graph)

\* C24 (edge-list consistency): in the builder's graph every edge of a
\* node's outgoing list has the node as source, every edge of a node's
\* incoming list has the node among its sinks, every edge of the graph is in
\* its source's outgoing list and in the incoming list of each of its sinks,
\* and every source and sink of every edge is in the node table.
C24_EdgeListConsistency ==
  /\ \A n \in DOMAIN graph.nodes :
       /\ \A i \in DOMAIN graph.nodes[n].outgoing_edges :
            graph.nodes[n].outgoing_edges[i].source = n
       /\ \A i \in DOMAIN graph.nodes[n].incoming_edges :
            n \in SeqToSet(graph.nodes[n].incoming_edges[i].sinks)
  /\ \A i \in DOMAIN AllEdges(graph) :
       LET e == AllEdges(graph)[i] IN
       /\ e.source \in DOMAIN graph.nodes
       /\ SeqToSet(e.sinks) \subseteq DOMAIN graph.nodes
       /\ e \in SeqToSet(graph.nodes[e.source].outgoing_edges)
       /\ \A v \in SeqToSet(e.sinks) :
            e \in SeqToSet(graph.nodes[v].incoming_edges)

\* the graph holds a concrete edge start -> a and a conditional edge of a
\* with the two sinks a and end, the last call having added one of them
C24_Witness ==
  /\ last_call.op \in {"add_concrete_edge", "add_conditional_edge"}
  /\ last_call.error = NONE
  /\ \E i \in DOMAIN graph.concrete_edges :
       graph.concrete_edges[i] = ConcreteEdge("start", "a")
  /\ \E i \in DOMAIN graph.conditional_edges :
       graph.conditional_edges[i].sinks = <<"a", "end">>

\* C25 (frozen after build): once build_graph has returned the Graph, the
\* Graph stays as it was when returned (node table, edge lists, every
\* node's incoming and outgoing lists and fallback), whatever builder calls
\* or executor steps follow.
C25_FrozenAfterBuild == built # <<>> => graph = built[1]

\* the builders whose node table holds the Node object o
RegisteredIn(o) ==
  {b \in DOMAIN tables : \E n \in DOMAIN tables[b].nodes : tables[b].nodes[n] = o}

\* C26 (single registration): no Node object is in the node table of both
\* builders' graphs, and the incoming and outgoing lists of a Node object
\* hold edges of one graph only.
C26_SingleRegistration ==
  \A o \in DOMAIN node_objects :
    /\ Cardinality(RegisteredIn(o)) <= 1
    /\ \A e1, e2 \in SeqToSet(node_objects[o].incoming_edges)
                       \cup SeqToSet(node_objects[o].outgoing_edges) :
         e1.builder = e2.builder

\* the fallback task started for the awaited task, if there is one
FallbackTasks == {j \in Fallbacks : j > idx /\ tasks[j].step = tasks[idx].step
                                      /\ tasks[j].node_id = tasks[idx].node_id}

\* execute ended on a fatal condition of a node, a fallback or a router
\* (not the superstep limit, not a failed checkpoint write)
FatalRaise ==
  /\ pc = "raised"
  /\ outcome.message \notin {"Max supersteps reached", "checkpoint save failed"}

\* C27 (single identifying error): when execute ends on a timeout, a node
\* failure without fallback, a fallback failure or a bad routing answer
\* (no string, or no sink of the edge), what reaches the caller is a
\* GraphExecutionError whose node id is the failed or timed-out node, the
\* source node of the routing, or the fallback node when the fallback
\* failed.
C27_IdentifyingError ==
  FatalRaise
    => /\ outcome.kind = "GraphExecutionError"
       /\ outcome.node_id =
            IF FallbackTasks # {}
                 /\ \A j \in FallbackTasks : tasks[j].pc \in {"failed", "timeout"}
            THEN tasks[CHOOSE j \in FallbackTasks : TRUE].exec_id
            ELSE tasks[idx].node_id

\* C28 (checkpoint round trip): the record a save writes holds the
\* executor's superstep counter, pending map (node ids and State lists in
\* order, by value), final state, retry policy and max_workers at that
\* moment and can be loaded; the executor built from a loaded record has
\* the same superstep counter, pending map, final state, retry policy and
\* max_workers as the record.
C28_CheckpointRoundTrip ==
  [][/\ (pc = "saving" /\ pc' = "loop")
          => /\ load(disk') = "CheckpointData"
             /\ disk'.superstep = superstep
             /\ disk'.active_states = MapValue(heap, active_states)
             /\ disk'.final_state = ValueOf(heap, self_final_state)
             /\ disk'.retry_policy = retry_policy
             /\ disk'.max_workers = max_workers
             /\ disk' \in saved'
     /\ (run = "first" /\ run' = "resumed")
          => /\ resumed_from' \in saved
             /\ superstep' = resumed_from'.superstep
             /\ MapValue(heap', active_states') = resumed_from'.active_states
             /\ ValueOf(heap', self_final_state') = resumed_from'.final_state
             /\ retry_policy' = resumed_from'.retry_policy
             /\ max_workers' = resumed_from'.max_workers]_vars

\* an executor was built from the checkpoint of superstep 1 of a fan-out
\* graph: two pending nodes, a then b, each with one State
C28_Witness ==
  /\ run = "resumed" /\ pc = "init"
  /\ resumed_from.superstep = 1 /\ superstep = 1
  /\ Len(active_states) = 2
  /\ active_states[1][1] = "a" /\ active_states[2][1] = "b"
  /\ MapValue(heap, active_states) = resumed_from.active_states

\* C29 (periodic checkpoint): when a superstep completes, the checkpoint
\* file is opened for writing exactly when a path and checkpoint_every are
\* set and the new superstep count is a positive multiple of
\* checkpoint_every; the record then written holds that count and the
\* pending map the next superstep starts from; the file changes at no other
\* moment, and never without a path or without checkpoint_every.
C29_PeriodicCheckpoint ==
  [][/\ pc = "advance"
          => /\ superstep' = superstep + 1
             /\ pc' = "saving"
                  <=> /\ checkpoint_path # NONE /\ checkpoint_every # 0
                      /\ superstep' > 0
                      /\ superstep' % checkpoint_every = 0
             /\ pc' # "saving" => disk' = disk
     /\ (pc = "saving" /\ pc' = "loop")
          => /\ disk'.complete
             /\ disk'.superstep = superstep'
             /\ disk'.superstep % checkpoint_every = 0
             /\ disk'.active_states = MapValue(heap', active_states')
     /\ disk' # disk => pc \in {"advance", "saving"}
     /\ (checkpoint_path = NONE \/ checkpoint_every = 0) => disk' = disk]_vars

\* checkpoint_every = 2: superstep 1 wrote nothing, superstep 2 wrote the
\* record of count 2 with the pending map of superstep 3
C29_Witness ==
  /\ run = "first" /\ pc = "loop"
  /\ checkpoint_every = 2 /\ superstep = 2
  /\ disk.complete /\ disk.superstep = 2
  /\ disk.active_states = MapValue(heap, active_states)
  /\ active_states # <<>>
  /\ saved = {disk}

\* C30 (AI model built once): over the invocations of an AI action,
\* build_model is called exactly once, before the first call of the
\* processing logic, and not again on later invocations or retries.
C30_ModelBuiltOnce ==
  ai_log # <<>>
    => /\ ai_log[1] = "build_model"
       /\ \A i \in DOMAIN ai_log : i > 1 => ai_log[i] # "build_model"

\* C31 (drained runs reach end): on a graph build_graph accepted, a run of
\* execute on a new executor that returns normally returns a State, not
\* None, and the end node was executed in a superstep of the run.
C31_DrainedRunsReachEnd ==
  (run = "first" /\ pc = "returned")
    => /\ build_graph(graph).error = NONE
       /\ outcome.state # NoRef /\ outcome.value # <<>>
       /\ \E i \in DOMAIN tasks :
            tasks[i].node_id = graph.end_node /\ tasks[i].pc = "done"

\* the sink that edge k of the node of task i sends the task's result to
SinkOf(i, k) ==
  LET edge == graph.nodes[tasks[i].node_id].outgoing_edges[k] IN
  IF edge.kind = "concrete" THEN edge.sinks[1]
  ELSE Router(edge.routing_function, heap[ResultOf(i)])

\* (task, edge) pairs of the current superstep that send a state to v
Contributions(v) ==
  {<<i, k>> \in (first..LastPrimary) \X (1..Len(AllEdges(graph))) :
     /\ k \in DOMAIN graph.nodes[tasks[i].node_id].outgoing_edges
     /\ SinkOf(i, k) = v}

\* pair p comes before pair q in the order of the await loop
RoutedBefore(p, q) == p[1] < q[1] \/ (p[1] = q[1] /\ p[2] < q[2])

\* C32 (routing conservation): when the await loop of a superstep has
\* ended, the next pending map holds, for every node v, exactly one state
\* per concrete outgoing edge to v and per conditional outgoing edge whose
\* router chose v, over the nodes of the superstep in order, each state
\* equal to the result of its node (the fallback's when the fallback ran);
\* nodes without outgoing edges add nothing and no other key is present.
C32_RoutingConservation ==
  pc = "advance"
    => /\ Keys(next_active_states)
            = {v \in DOMAIN graph.nodes : Contributions(v) # {}}
       /\ \A v \in Keys(next_active_states) :
            LET got == Get(next_active_states, v) IN
            /\ Len(got) = Cardinality(Contributions(v))
            /\ \A p \in Contributions(v) :
                 LET pos == 1 + Cardinality({q \in Contributions(v) :
                                               RoutedBefore(q, p)})
                 IN heap[got[pos]] = heap[ResultOf(p[1])]
       /\ \A j \in DOMAIN next_active_states :
            \A l \in DOMAIN next_active_states :
              next_active_states[j][1] = next_active_states[l][1] => j = l

\* a and b of the fan-in graph both sent their result to end, a's first
C32_Witness ==
  /\ pc = "advance" /\ graph = FanInGraph
  /\ Len(next_active_states) = 1
  /\ next_active_states[1][1] = "end"
  /\ Len(next_active_states[1][2]) = 2
  /\ heap[next_active_states[1][2][1]] = <<"init", "a">>
  /\ heap[next_active_states[1][2][2]] = <<"init", "b">>


\* C33 (routing after the barrier): within a superstep no result is routed
\* (no routing function invoked, no state appended to the next pending map)
\* until every task submitted for that superstep has completed.
C33_RoutingAfterBarrier ==
  \A i \in Routed :
    \A j \in Primaries :
      tasks[j].step = tasks[i].step => tasks[j].pc \in Finished


\* C34 (back-off holds no worker slot): the slots taken from the semaphore
\* are those of the tasks inside node.execute; a task sleeping between two
\* attempts holds none, so a waiting sibling can execute meanwhile.
C34_BackoffFreesSlot ==
  (\E i \in DOMAIN tasks : tasks[i].pc = "sleeping")
    => semaphore = max_workers - Cardinality(Executing)


\* C35 (same input on every attempt): every attempt of a node, and of its
\* fallback, starts on a state equal to the pending input the node was
\* dispatched with, even after an earlier attempt mutated its input.
C35_SameInputEveryAttempt ==
  \A i \in DOMAIN tasks :
    ( /\ tasks[i].step = superstep
      /\ tasks[i].pc = "executing"
      /\ tasks[i].node_id \in Keys(active_states)
      /\ graph.nodes[tasks[i].node_id].kind # "aggregator" )
    => heap[tasks[i].input[1]]
         = heap[FirstInputState(Get(active_states, tasks[i].node_id))]


\* C36 (completion at the limit): the max-supersteps error is raised only
\* when inputs are still pending when the counter reaches max_supersteps; a
\* run whose pending map drains at the end of superstep number
\* max_supersteps returns its final State.
C36_CompletionAtLimit ==
  (pc = "raised" /\ outcome.message = "Max supersteps reached")
    => active_states # <<>>


\* C37 (failed Builder calls change nothing): a call of add_node,
\* set_fallback_node, add_concrete_edge or add_conditional_edge that raises
\* leaves the node table, both edge lists and every node's incoming list,
\* outgoing list and fallback id as they were before the call.
C37_FailedCallsChangeNothing ==
  ( /\ last_call.op \in {"add_node", "set_fallback_node", "add_concrete_edge",
                         "add_conditional_edge"}
    /\ last_call.error # NONE )
  => graph = last_call.before

\* add_node("start") was refused on a graph that already has an edge and
\* add_conditional_edge was refused for its untagged router
C37_Witness ==
  /\ last_call.error \in {"DuplicateNodeError",
                          "RoutingFunctionNotDecoratedError"}
  /\ graph = last_call.before
  /\ EdgeCount(graph) >= 1


\* a visit of node n fails for good: the node on every attempt and, if it
\* has one, its fallback too
VisitFails(n) ==
  /\ fails[n] > retry_policy.max_retries
  /\ \/ FallbackOf(graph, n) = NONE
     \/ fails[FallbackOf(graph, n)] > retry_policy.max_retries

\* the outcome of execute as its caller sees it
Observed(o) ==
  [kind |-> o.kind, node_id |-> o.node_id, message |-> o.message,
   value |-> o.value]

\* C38 (interleaving independence): with deterministic actions and routers
\* and no timer expiring, a second run of the same program ends as the first
\* did (same final State, or same node id in the error) and has after every
\* superstep the pending map the first run had, whatever the interleaving
\* of its tasks; and when several nodes of a superstep fail, the error
\* raised is that of the first of them in the pending map's order.
C38_InterleavingIndependence ==
  /\ (run = "second" /\ pc \in {"returned", "raised"})
       => Observed(outcome) = Observed(first_outcome)
  /\ (run = "second" /\ pc = "loop")
       => \A c \in saved :
            c.superstep = superstep
              => c.active_states = MapValue(heap, active_states)
  /\ (pc = "raised" /\ outcome.message \in {"node failed", "Fallback node failed"})
       => /\ VisitFails(tasks[idx].node_id)
          /\ \A p \in DOMAIN active_states :
               VisitFails(active_states[p][1]) => first + p - 1 >= idx

\* the second run ended on the failure of a, the first of two failing nodes
\* of its superstep, as the first run had
C38_Witness ==
  /\ run = "second" /\ pc = "raised"
  /\ outcome.message = "node failed"
  /\ outcome.node_id = "a"
  /\ Cardinality({p \in DOMAIN active_states :
                    VisitFails(active_states[p][1])}) = 2
  /\ Observed(outcome) = Observed(first_outcome)
  /\ \E c \in saved : c.superstep = superstep


\* C39 (termination): every call of execute eventually returns or raises,
\* after at most max_supersteps supersteps and at most max_retries + 1
\* attempts per node visit, and no task waits forever for a worker slot:
\* from some moment on execute is over and every task it made has finished.
C39_Termination ==
  /\ <>[](/\ pc \in {"returned", "raised"}
          /\ \A i \in DOMAIN tasks : tasks[i].pc \in Finished)
  /\ [](superstep <= max_supersteps)
  /\ [](\A i \in DOMAIN tasks :
          tasks[i].calls <= tasks[i].policy.max_retries + 1)

\* a task that had to wait for a slot behind a sleeping sibling has finished
\* and execute has returned
C39_Witness ==
  /\ pc = "returned"
  /\ max_workers = 1
  /\ \E i \in DOMAIN tasks : tasks[i].sleeps # <<>>
  /\ \A i \in DOMAIN tasks : tasks[i].pc \in Finished
  /\ Len(tasks) >= 4


\* C40 (timeout classification): the superstep-timeout error is raised for
\* a node only when wait_for cut the node's task because its budget elapsed;
\* an exception of the node's own action on its last attempt, of whatever
\* kind, is a node failure (fallback, or node-execution error).
C40_TimeoutClassification ==
  (pc = "raised" /\ outcome.message = "Execution timed out")
    => tasks[idx].pc = "timeout"

=============================================================================
